---- MODULE Spec2Model ----
(***************************************************************************)
(* buf-kcat: dynamic protobuf registry, decoder/encoder and consume loop.  *)
(*                                                                         *)
(* The module models                                                       *)
(*   - internal/decoder: NewDecoder, loadDescriptorSet, loadMessages,      *)
(*     loadMessage, Decode, decodeWithType, MessageTypeCount;              *)
(*   - cmd/produce.go: runProduce, encodeMessage;                          *)
(*   - internal/kafka: NewConsumer (offset switch), Consumer.Run;          *)
(*   - internal/formatter: New and the Format of the five formatters;      *)
(*   - loadWithBuf run by two processes at the same time.                  *)
(* The protobuf runtime (protodesc, protoregistry, proto, protojson) is    *)
(* modelled by what its calls do on a small universe of descriptors, JSON  *)
(* documents and wire payloads.                                            *)
(***************************************************************************)
EXTENDS Integers, Sequences, FiniteSets, TLC

VARIABLES
    \* --- Decoder under construction / constructed (decoder.go:19-23)
    fdSet,          \* fdSet.File: the parsed descriptor set being loaded
    fileIdx,        \* position of the range loop of loadDescriptorSet
    messageTypes,   \* d.messageTypes: full name -> message descriptor
    registry,       \* d.registry: the registered file descriptors
    defaultType,    \* d.defaultType
    loadPc,         \* "loading" | "ready" (decoder returned) | "failed"
    loadErr,        \* error returned by NewDecoder ("" = nil)
    \* --- the schema source and the command around NewDecoder
    protoPath,      \* what the protoPath argument names in the file system
    effects,        \* file-system and process operations performed, in order
    \* --- the directory os.TempDir()/buf-kcat-descriptors and the processes
    \*     that load through the buf tool at the same time
    tempDir,        \* whether the directory exists, and whose image.bin it holds
    procs,          \* per process: its position in loadWithBuf and what it read
    exitStatus,     \* exit status of the command ("" while it runs)
    \* --- last call made on the constructed decoder
    call,
    \* --- consume session (Consumer.Run)
    cfg,            \* c.cfg: Count, Follow, KeyFilter, OutputFormat, Verbose
    topicLog,       \* the topic: partition -> sequence of records
    fetchPos,       \* the client's position: partition -> records fetched
    fetches,        \* what the last PollFetches returned
    outputs,        \* the formatter.Message values passed to Format, in order
    messageCount,   \* messageCount of Run
    decoded,        \* the records passed to Decode, in order
    ctxDone,        \* ctx.Done() is closed
    runPc,          \* "idle" | "running" | "returned" | "panicked"
    stdout,         \* what the session wrote to os.Stdout, piece by piece
    stderr,         \* the lines the session wrote to os.Stderr
    \* --- produce session (runProduce)
    lines,          \* the input, line by line
    lineIdx,        \* the line scanner.Scan delivers next
    reports,        \* what runProduce printed about each line, in order
    encodeCalls,    \* the lines passed to encodeMessage, in order
    sent,           \* the records handed to ProduceSync, in order
    producedCount,  \* messageCount of runProduce
    prodPc          \* "idle" | "scanning" | "done"

loadVars == <<fdSet, fileIdx, messageTypes, registry, defaultType, loadPc, loadErr>>
callVars == <<call>>
runVars  == <<cfg, topicLog, fetchPos, fetches, outputs, messageCount, decoded, ctxDone,
             runPc, stdout, stderr>>
shareVars == <<tempDir, procs>>
srcVars  == <<protoPath, effects, shareVars>>
cmdVars  == <<exitStatus>>
prodVars == <<lines, lineIdx, reports, encodeCalls, sent, producedCount, prodPc>>
vars     == <<loadVars, callVars, runVars, srcVars, cmdVars, prodVars>>

-----------------------------------------------------------------------------
(* Bounds *)

\* files in a descriptor set
MaxFiles == 3
\* wire items in a payload
MaxWire == 2
\* records held by the topic, over all its partitions
MaxRecords == 2
\* partitions of the topic
NumPartitions == 2
\* largest --count of a session
MaxCount == 1
\* fetch errors the broker reports in a session
MaxFetchErrors == 1
\* keys of a JSON document
MaxJsonKeys == 2
\* input lines of a produce session
MaxLines == 3

-----------------------------------------------------------------------------
(* Go maps: functions with a finite, growing domain *)

EmptyMap == [k \in {} |-> k]

MapPut(m, k, v) == [x \in (DOMAIN m) \cup {k} |-> IF x = k THEN v ELSE m[x]]

HasKey(m, k) == k \in DOMAIN m

-----------------------------------------------------------------------------
(* Descriptor universe: what a FileDescriptorSet can hold *)

\* field descriptors: proto name, JSON name, number, kind, explicit presence
FUserId == [name |-> "user_id", json |-> "userId", num |-> 1, kind |-> "string",
            presence |-> FALSE]
FCount  == [name |-> "count", json |-> "count", num |-> 2, kind |-> "int32",
            presence |-> FALSE]
\* proto3 `optional string note = 3;`
FNote   == [name |-> "note", json |-> "note", num |-> 3, kind |-> "string",
            presence |-> TRUE]

\* `google.protobuf.Timestamp created = 4;`
FCreated == [name |-> "created", json |-> "created", num |-> 4, kind |-> "timestamp",
             presence |-> TRUE]

MsgA    == [fullName |-> "pkg.Msg", file |-> "a.proto",
            fields |-> <<FUserId, FCount, FNote>>, nested |-> <<>>]
MsgB    == [fullName |-> "pkg.Msg", file |-> "b.proto",
            fields |-> <<FUserId>>, nested |-> <<>>]
MsgA2   == [fullName |-> "pkg.Msg", file |-> "a.proto",
            fields |-> <<FCount>>, nested |-> <<>>]
MsgDeep == [fullName |-> "pkg.Outer.Inner.Deep", file |-> "o.proto",
            fields |-> <<>>, nested |-> <<>>]
MsgInner == [fullName |-> "pkg.Outer.Inner", file |-> "o.proto",
             fields |-> <<>>, nested |-> <<MsgDeep>>]
MsgOuter == [fullName |-> "pkg.Outer", file |-> "o.proto",
             fields |-> <<FCreated>>, nested |-> <<MsgInner>>]
MsgBad  == [fullName |-> "pkg.Bad", file |-> "x.proto",
            fields |-> <<>>, nested |-> <<>>]

\* FileDescriptorProto: path, imports, whether protodesc accepts its content,
\* top-level messages
FileA  == [path |-> "a.proto", deps |-> {}, valid |-> TRUE, messages |-> <<MsgA>>]
FileB  == [path |-> "b.proto", deps |-> {}, valid |-> TRUE, messages |-> <<MsgB>>]
\* a second file with the path of FileA
FileA2 == [path |-> "a.proto", deps |-> {}, valid |-> TRUE, messages |-> <<MsgA2>>]
\* imports a.proto; declares Outer { Inner { Deep } }
FileO  == [path |-> "o.proto", deps |-> {"a.proto"}, valid |-> TRUE,
           messages |-> <<MsgOuter>>]
\* declares no message
FileE  == [path |-> "e.proto", deps |-> {}, valid |-> TRUE, messages |-> <<>>]
\* rejected by protodesc whatever the resolver
FileX  == [path |-> "x.proto", deps |-> {}, valid |-> FALSE, messages |-> <<MsgBad>>]

FileUniverse == {FileA, FileB, FileA2, FileO, FileE, FileX}

RECURSIVE SeqsUpTo(_, _)
SeqsUpTo(S, n) ==
    IF n = 0 THEN {<<>>}
    ELSE LET shorter == SeqsUpTo(S, n - 1)
         IN shorter \cup {Append(s, x) : s \in {t \in shorter : Len(t) = n - 1}, x \in S}

DescriptorSets == SeqsUpTo(FileUniverse, MaxFiles)

TypeNames == {"", "pkg.Msg", "pkg.Outer", "pkg.Nope"}

ErrNone == ""
ErrRegister == "failed to register file"
ErrNoTypes == "no message types loaded"

-----------------------------------------------------------------------------
(* protodesc / protoregistry *)

\* protodesc.NewFile(fdProto, r): the file is built when its content is
\* accepted and every import is found by the resolver; a nil resolver finds
\* nothing.
NewFile(fdProto, resolver) ==
    [ok |-> fdProto.valid /\ fdProto.deps \subseteq {f.path : f \in resolver},
     fd |-> fdProto]

\* registry.FindFileByPath: err == nil
FindFileByPath(reg, path) == \E f \in reg : f.path = path

TopLevelNames(fd) == {fd.messages[i].fullName : i \in DOMAIN fd.messages}

\* registry.RegisterFile: refuses a path already registered and a top-level
\* name already declared by a registered file
RegisterFile(reg, fd) ==
    IF \/ FindFileByPath(reg, fd.path)
       \/ \E f \in reg : TopLevelNames(f) \cap TopLevelNames(fd) # {}
    THEN [ok |-> FALSE, reg |-> reg]
    ELSE [ok |-> TRUE, reg |-> reg \cup {fd}]

-----------------------------------------------------------------------------
(* Decoder.loadMessages / Decoder.loadMessage *)

\* loadMessage without the loop over msg.Messages()
loadMessage_TopLevelOnly(mt, msg) == MapPut(mt, msg.fullName, msg)

RECURSIVE loadMessage(_, _)
RECURSIVE loadEach(_, _, _)

\* the for loops of loadMessages and loadMessage
loadEach(mt, msgs, i) ==
    IF i > Len(msgs) THEN mt
    ELSE loadEach(loadMessage(mt, msgs[i]), msgs, i + 1)

loadMessage(mt, msg) ==
    loadEach(MapPut(mt, msg.fullName, msg), msg.nested, 1)

loadMessages(mt, fd) == loadEach(mt, fd.messages, 1)

-----------------------------------------------------------------------------
(* Decoder.loadDescriptorSet *)

\* the resolution of one file: against the registry, then without it
ResolveFile(reg, fdProto) ==
    LET first == NewFile(fdProto, reg)
    IN IF first.ok THEN first ELSE NewFile(fdProto, {})

\* one iteration of the range loop: d is [messageTypes, registry, err]
LoadFile(d, fdProto) ==
    LET res == ResolveFile(d.registry, fdProto)
    IN IF ~res.ok THEN d
       ELSE LET found == FindFileByPath(d.registry, res.fd.path)
                reg == IF found THEN [ok |-> TRUE, reg |-> d.registry]
                       ELSE RegisterFile(d.registry, res.fd)
            IN IF ~reg.ok THEN [d EXCEPT !.err = ErrRegister]
               ELSE [messageTypes |-> loadMessages(d.messageTypes, res.fd),
                     registry |-> reg.reg,
                     err |-> ErrNone]

\* the loop's end without the len(d.messageTypes) == 0 check
FinishLoad_NoCheck(d) == d

\* the check that follows the loop
FinishLoad(d) ==
    IF Cardinality(DOMAIN d.messageTypes) = 0 THEN [d EXCEPT !.err = ErrNoTypes] ELSE d

RECURSIVE LoadFrom(_, _, _)
LoadFrom(d, files, i) ==
    IF d.err # ErrNone THEN d
    ELSE IF i > Len(files) THEN FinishLoad(d)
    ELSE LoadFrom(LoadFile(d, files[i]), files, i + 1)

NewDecoderState == [messageTypes |-> EmptyMap, registry |-> {}, err |-> ErrNone]

\* the whole of loadDescriptorSet on a parsed set
loadDescriptorSet(files) == LoadFrom(NewDecoderState, files, 1)

\* Decoder.MessageTypeCount
MessageTypeCount(mt) == Cardinality(DOMAIN mt)

-----------------------------------------------------------------------------
(* The schema source: what protoPath names, and the buf tool *)

\* file contents, by what proto.Unmarshal makes of them: `set` is the parse
\* as a FileDescriptorSet, `single` the parse as a FileDescriptorProto
Blob(setOk, files, singleOk, file) ==
    [set |-> [ok |-> setOk, files |-> files], single |-> [ok |-> singleOk, file |-> file]]

\* serialized descriptor sets
BlobSetA == Blob(TRUE, <<FileA>>, FALSE, FileE)
BlobSetAO == Blob(TRUE, <<FileA, FileO>>, TRUE, FileE)
BlobSetAB == Blob(TRUE, <<FileA, FileB>>, FALSE, FileE)
BlobSetX == Blob(TRUE, <<FileX>>, FALSE, FileE)
\* a serialized FileDescriptorProto that does not parse as a set
BlobFileA == Blob(FALSE, <<>>, TRUE, FileA)
\* a serialized FileDescriptorProto whose bytes also parse as a set, every
\* field of it unknown to the set
BlobBoth == Blob(TRUE, <<>>, TRUE, FileA)
\* bytes that parse as neither
BlobGarbage == Blob(FALSE, <<>>, FALSE, FileE)

Blobs == {BlobSetA, BlobSetAO, BlobSetAB, BlobSetX, BlobFileA, BlobBoth, BlobGarbage}

\* filepath.Ext(path)
Exts == {".desc", ".pb", ".protoset", ".yaml", ".yml", ".bin", ""}

\* what the buf tool does when run: os.MkdirAll fails, `buf build` fails, it
\* ends without an image that can be read, or it writes an image
ToolFailsMkdir == [mkdir |-> FALSE, build |-> FALSE, written |-> FALSE, image |-> BlobGarbage]
ToolFailsBuild == [mkdir |-> TRUE, build |-> FALSE, written |-> FALSE, image |-> BlobGarbage]
ToolWritesNothing == [mkdir |-> TRUE, build |-> TRUE, written |-> FALSE, image |-> BlobGarbage]
ToolBuilds(image) == [mkdir |-> TRUE, build |-> TRUE, written |-> TRUE, image |-> image]

ToolOutcomes ==
    {ToolFailsMkdir, ToolFailsBuild, ToolWritesNothing, ToolBuilds(BlobSetA),
     ToolBuilds(BlobSetX), ToolBuilds(BlobGarbage)}

\* a path that exists: its extension, whether os.ReadFile can read it (a
\* directory cannot be read), its bytes, and the tool's outcome; the file
\* system does not change while NewDecoder runs
ExistingSources ==
    {[exists |-> TRUE, ext |-> e, readable |-> r, content |-> c, tool |-> t] :
        e \in Exts, r \in BOOLEAN, c \in Blobs, t \in ToolOutcomes}

MissingSource ==
    [exists |-> FALSE, ext |-> ".yaml", readable |-> FALSE, content |-> BlobGarbage,
     tool |-> ToolFailsBuild]

Sources ==
    {MissingSource} \cup {src \in ExistingSources : ~src.readable => src.content = BlobGarbage}

ErrNotFound == "proto file not found"
ErrReadSet == "failed to read descriptor set file"
ErrMkdir == "failed to create temp directory"
ErrBufBuild == "buf build failed"
ErrReadImage == "failed to read descriptor"
ErrUnmarshalDescriptor == "failed to unmarshal descriptor"

\* entries of the effects log
OpStat == "os.Stat"
OpRead == "os.ReadFile"
OpUnmarshalSet == "proto.Unmarshal FileDescriptorSet"
OpUnmarshalFile == "proto.Unmarshal FileDescriptorProto"
OpMkdir == "os.MkdirAll"
OpBuf == "buf build"
OpReadImage == "os.ReadFile image.bin"
OpLoadBlob == "loadFromDescriptorSet"
OpLoadBuf == "loadWithBuf"
OpRemoveAll == "os.RemoveAll"

\* os.ReadFile(path)
ReadFile(src) == [ok |-> src.exists /\ src.readable, data |-> src.content]

\* Decoder.isDescriptorSetFile: the answer and the operations it performed
isDescriptorSetFile(src) ==
    IF src.ext \in {".desc", ".pb", ".protoset"}
    THEN [blob |-> TRUE, effects |-> <<>>]
    ELSE IF src.ext = "" \/ (src.ext # ".yaml" /\ src.ext # ".yml")
    THEN LET rd == ReadFile(src)
         IN IF ~rd.ok THEN [blob |-> FALSE, effects |-> <<OpRead>>]
            ELSE IF rd.data.set.ok
                 THEN [blob |-> TRUE, effects |-> <<OpRead, OpUnmarshalSet>>]
            ELSE [blob |-> rd.data.single.ok,
                  effects |-> <<OpRead, OpUnmarshalSet, OpUnmarshalFile>>]
    ELSE [blob |-> FALSE, effects |-> <<>>]

\* the result of a loader step: the error, fdSet.File, the operations
Loaded(err, files, ops) == [err |-> err, files |-> files, effects |-> ops]

\* the head of loadDescriptorSet with the single-descriptor fallback dropped
ParseDescriptor_SetOnly(data) ==
    IF data.set.ok THEN Loaded(ErrNone, data.set.files, <<OpUnmarshalSet>>)
    ELSE Loaded(ErrUnmarshalDescriptor, <<>>, <<OpUnmarshalSet>>)

\* the head of loadDescriptorSet: the bytes as a set, else as a single file
\* descriptor made a one-element set
ParseDescriptor(data) ==
    IF data.set.ok THEN Loaded(ErrNone, data.set.files, <<OpUnmarshalSet>>)
    ELSE IF data.single.ok
         THEN Loaded(ErrNone, <<data.single.file>>, <<OpUnmarshalSet, OpUnmarshalFile>>)
    ELSE Loaded(ErrUnmarshalDescriptor, <<>>, <<OpUnmarshalSet, OpUnmarshalFile>>)

\* Decoder.loadFromDescriptorSet, up to the loop of loadDescriptorSet
loadFromDescriptorSet(src) ==
    LET rd == ReadFile(src)
    IN IF ~rd.ok THEN Loaded(ErrReadSet, <<>>, <<OpLoadBlob, OpRead>>)
       ELSE LET parsed == ParseDescriptor(rd.data)
            IN Loaded(parsed.err, parsed.files, <<OpLoadBlob, OpRead>> \o parsed.effects)

\* `defer os.RemoveAll(tempDir)` of loadWithBuf, run when the function
\* returns: `ops` is the log of a load, through the tool or not
RunDeferred(ops) ==
    IF \E i \in DOMAIN ops : ops[i] = OpLoadBuf THEN Append(ops, OpRemoveAll) ELSE ops

\* loadWithBuf removing the directory only when it returns an image
loadWithBuf_RemoveOnSuccessOnly(src) ==
    IF ~src.tool.mkdir THEN Loaded(ErrMkdir, <<>>, <<OpLoadBuf, OpStat, OpMkdir>>)
    ELSE IF ~src.tool.build
         THEN Loaded(ErrBufBuild, <<>>, <<OpLoadBuf, OpStat, OpMkdir, OpBuf>>)
    ELSE IF ~src.tool.written
         THEN Loaded(ErrReadImage, <<>>, <<OpLoadBuf, OpStat, OpMkdir, OpBuf, OpReadImage>>)
    ELSE LET parsed == ParseDescriptor(src.tool.image)
             ops == <<OpLoadBuf, OpStat, OpMkdir, OpBuf, OpReadImage>> \o parsed.effects
         IN Loaded(parsed.err, parsed.files, ops)

\* Decoder.loadWithBuf, up to the loop of loadDescriptorSet: the deferred
\* removal is not registered when MkdirAll fails, runs before each error
\* return that follows, and is still pending when the loop starts
loadWithBuf(src) ==
    IF ~src.tool.mkdir THEN Loaded(ErrMkdir, <<>>, <<OpLoadBuf, OpStat, OpMkdir>>)
    ELSE IF ~src.tool.build
         THEN Loaded(ErrBufBuild, <<>>,
                     RunDeferred(<<OpLoadBuf, OpStat, OpMkdir, OpBuf>>))
    ELSE IF ~src.tool.written
         THEN Loaded(ErrReadImage, <<>>,
                     RunDeferred(<<OpLoadBuf, OpStat, OpMkdir, OpBuf, OpReadImage>>))
    ELSE LET parsed == ParseDescriptor(src.tool.image)
             ops == <<OpLoadBuf, OpStat, OpMkdir, OpBuf, OpReadImage>> \o parsed.effects
         IN Loaded(parsed.err, parsed.files,
                   IF parsed.err = ErrNone THEN ops ELSE RunDeferred(ops))

\* loadProtoDefinitions without the os.Stat check
loadProtoDefinitions_NoStat(src) ==
    LET kind == isDescriptorSetFile(src)
        rest == IF kind.blob THEN loadFromDescriptorSet(src) ELSE loadWithBuf(src)
    IN Loaded(rest.err, rest.files, kind.effects \o rest.effects)

\* loadProtoDefinitions deciding by the extension alone
loadProtoDefinitions_ExtOnly(src) ==
    IF ~src.exists THEN Loaded(ErrNotFound, <<>>, <<OpStat>>)
    ELSE LET rest == IF src.ext \in {".desc", ".pb", ".protoset"}
                     THEN loadFromDescriptorSet(src) ELSE loadWithBuf(src)
         IN Loaded(rest.err, rest.files, <<OpStat>> \o rest.effects)

\* Decoder.loadProtoDefinitions, up to the loop of loadDescriptorSet
loadProtoDefinitions(src) ==
    IF ~src.exists THEN Loaded(ErrNotFound, <<>>, <<OpStat>>)
    ELSE LET kind == isDescriptorSetFile(src)
             rest == IF kind.blob THEN loadFromDescriptorSet(src) ELSE loadWithBuf(src)
         IN Loaded(rest.err, rest.files, <<OpStat>> \o kind.effects \o rest.effects)

-----------------------------------------------------------------------------
(* JSON documents and wire payloads *)

\* JSON values: strings, numbers (by their digits) and null
JStr(v) == [t |-> "str", v |-> v]
JNum(v) == [t |-> "num", v |-> v]
JNull == [t |-> "null", v |-> ""]

TimeText == "2024-01-15T15:04:05Z"

JsonValues == {JStr(""), JStr("u1"), JStr(TimeText), JNum("0"), JNum("7"), JNull}

JsonKeys == {"user_id", "userId", "count", "note", "created", "bogus"}

\* JSON objects of at most MaxJsonKeys members
JsonDocs ==
    UNION {[ks -> JsonValues] : ks \in {k \in SUBSET JsonKeys : Cardinality(k) <= MaxJsonKeys}}

\* input texts that are no JSON object: a text json.Unmarshal rejects, and a
\* JSON value that is valid but a scalar
NotJSON == [k \in {"{ invalid json }"} |-> JNull]
JsonScalar == [k \in {"42"} |-> JNull]

\* json.Unmarshal(jsonData, &jsonObj) == nil
jsonValid(jsonData) == jsonData # NotJSON

\* one field of a wire payload: number, wire type, content
Item(num, wt, val) == [num |-> num, wt |-> wt, val |-> val]

BadUtf8 == "\\xff"
TimeOk == "seconds:1705331045"
TimeOutOfRange == "seconds:999999999999"

WireItems ==
    {Item(1, "len", "u1"), Item(1, "len", ""), Item(1, "len", BadUtf8),
     Item(2, "varint", "7"), Item(2, "varint", "0"),
     Item(3, "len", ""),
     Item(4, "len", TimeOk), Item(4, "len", TimeOutOfRange),
     \* a field no message declares, and a declared one under another wire type
     Item(9, "varint", "1"), Item(1, "varint", "5"),
     \* field number 0, and a length that runs past the end of the input
     Item(0, "varint", "0"), Item(1, "trunc", "")}

Payloads == SeqsUpTo(WireItems, MaxWire)

-----------------------------------------------------------------------------
(* proto / protojson on dynamic messages *)

ZeroOf(kind) == IF kind = "int32" THEN "0" ELSE ""

WireTypeOf(kind) == IF kind = "int32" THEN "varint" ELSE "len"

FieldsOf(desc) == {desc.fields[i] : i \in DOMAIN desc.fields}

\* dynamicpb Has: a field with presence is set once stored, one without
\* presence when its value is not the zero value
IsSet(fd, val) == fd.presence \/ val # ZeroOf(fd.kind)

Populated(desc, msg) ==
    {f \in FieldsOf(desc) : f.num \in DOMAIN msg /\ IsSet(f, msg[f.num])}

\* protojson accepts a member under the field's proto name or its JSON name
FieldsNamed(desc, key) == {f \in FieldsOf(desc) : f.name = key \/ f.json = key}

\* the field value a JSON value stands for
FromJson(fd, jv) ==
    CASE fd.kind = "string" -> [ok |-> jv.t = "str", val |-> jv.v]
      [] fd.kind = "int32" -> [ok |-> jv.t = "num", val |-> jv.v]
      [] OTHER -> [ok |-> jv = JStr(TimeText), val |-> TimeOk]

\* protojson.UnmarshalOptions{DiscardUnknown, AllowPartial: false}.Unmarshal
\* (the messages of the universe are proto3: no required field)
protojsonUnmarshal(doc, desc, discardUnknown) ==
    LET notObject == doc \in {NotJSON, JsonScalar}
        known == {k \in DOMAIN doc : FieldsNamed(desc, k) # {}}
        fieldOf(k) == CHOOSE f \in FieldsNamed(desc, k) : TRUE
        unknown == ~discardUnknown /\ known # DOMAIN doc
        duplicate == \E k1, k2 \in known : k1 # k2 /\ fieldOf(k1) = fieldOf(k2)
        stored == {k \in known : doc[k] # JNull}
        badValue == \E k \in stored : ~FromJson(fieldOf(k), doc[k]).ok
        keyOf(n) == CHOOSE k \in stored : fieldOf(k).num = n
    IN [ok |-> ~notObject /\ ~unknown /\ ~duplicate /\ ~badValue,
        msg |-> [n \in {fieldOf(k).num : k \in stored} |->
                    FromJson(fieldOf(keyOf(n)), doc[keyOf(n)]).val]]

\* the sequences that hold each element of S once
RECURSIVE Orderings(_)
Orderings(S) ==
    IF S = {} THEN {<<>>}
    ELSE UNION {{<<x>> \o rest : rest \in Orderings(S \ {x})} : x \in S}

\* proto.Marshal: one item per populated field; the fields of a dynamic
\* message are ranged over in no fixed order
protoMarshal(desc, msg) ==
    Orderings({Item(f.num, WireTypeOf(f.kind), msg[f.num]) : f \in Populated(desc, msg)})

Malformed(item) == item.num = 0 \/ item.wt = "trunc"

RECURSIVE ParseFrom(_, _, _, _)
\* proto.Unmarshal, item by item: it stops at the first malformed item or
\* invalid string, with msg holding the fields parsed before it
ParseFrom(items, i, desc, msg) ==
    IF i > Len(items) THEN [ok |-> TRUE, msg |-> msg]
    ELSE LET item == items[i]
             match == {f \in FieldsOf(desc) :
                         f.num = item.num /\ WireTypeOf(f.kind) = item.wt}
         IN IF Malformed(item) THEN [ok |-> FALSE, msg |-> msg]
            ELSE IF match = {} THEN ParseFrom(items, i + 1, desc, msg)
            ELSE IF (CHOOSE f \in match : TRUE).kind = "string" /\ item.val = BadUtf8
                 THEN [ok |-> FALSE, msg |-> msg]
            ELSE ParseFrom(items, i + 1, desc, MapPut(msg, item.num, item.val))

protoUnmarshal(items, desc) == ParseFrom(items, 1, desc, EmptyMap)

\* the JSON value of a field value
ToJson(fd, val) ==
    CASE fd.kind = "string" -> JStr(val)
      [] fd.kind = "int32" -> JNum(val)
      [] OTHER -> JStr(TimeText)

\* protojson.MarshalOptions{EmitUnpopulated, UseProtoNames}.Marshal; a
\* timestamp out of range cannot be rendered
protojsonMarshal(desc, msg, emitUnpopulated, useProtoNames) ==
    LET emitted == IF emitUnpopulated THEN FieldsOf(desc) ELSE Populated(desc, msg)
        keyOf(f) == IF useProtoNames THEN f.name ELSE f.json
        fieldAt(k) == CHOOSE f \in emitted : keyOf(f) = k
        valueOf(f) == IF f.num \in DOMAIN msg THEN msg[f.num] ELSE ZeroOf(f.kind)
    IN [ok |-> \A f \in emitted : f.kind = "timestamp" => valueOf(f) # TimeOutOfRange,
        json |-> [k \in {keyOf(f) : f \in emitted} |-> ToJson(fieldAt(k), valueOf(fieldAt(k)))]]

-----------------------------------------------------------------------------
(* Decoder.Decode, Decoder.decodeWithType, encodeMessage *)

ErrTypeRequired == "message type is required"
ErrUnknownType == "unknown message type"
ErrUnmarshal == "failed to unmarshal"
ErrMarshalJSON == "failed to marshal to JSON"
ErrTypeNotFound == "message type not found"
ErrJSONToProto == "failed to unmarshal JSON to proto"

\* (nil, "", err)
DecodeFailure(err) == [jsonNil |-> TRUE, json |-> EmptyMap, type |-> "", err |-> err]

\* decodeWithType with UseProtoNames left false
decodeWithType_JSONNames(mt, data, typeName) ==
    IF ~HasKey(mt, typeName) THEN DecodeFailure(ErrUnknownType)
    ELSE LET parsed == protoUnmarshal(data, mt[typeName])
         IN IF ~parsed.ok THEN DecodeFailure(ErrUnmarshal)
            ELSE LET out == protojsonMarshal(mt[typeName], parsed.msg, FALSE, FALSE)
                 IN IF ~out.ok THEN DecodeFailure(ErrMarshalJSON)
                    ELSE [jsonNil |-> FALSE, json |-> out.json, type |-> typeName,
                          err |-> ErrNone]

\* decodeWithType taking a missing map entry for an empty message type
decodeWithType_MissIsEmpty(mt, data, typeName) ==
    IF ~HasKey(mt, typeName)
    THEN [jsonNil |-> FALSE, json |-> EmptyMap, type |-> typeName, err |-> ErrNone]
    ELSE LET parsed == protoUnmarshal(data, mt[typeName])
         IN IF ~parsed.ok THEN DecodeFailure(ErrUnmarshal)
            ELSE LET out == protojsonMarshal(mt[typeName], parsed.msg, FALSE, TRUE)
                 IN IF ~out.ok THEN DecodeFailure(ErrMarshalJSON)
                    ELSE [jsonNil |-> FALSE, json |-> out.json, type |-> typeName,
                          err |-> ErrNone]

\* decodeWithType rendering what was parsed when proto.Unmarshal fails
decodeWithType_PartialOnError(mt, data, typeName) ==
    IF ~HasKey(mt, typeName) THEN DecodeFailure(ErrUnknownType)
    ELSE LET parsed == protoUnmarshal(data, mt[typeName])
             out == protojsonMarshal(mt[typeName], parsed.msg, FALSE, TRUE)
         IN IF ~out.ok THEN DecodeFailure(ErrMarshalJSON)
            ELSE [jsonNil |-> FALSE, json |-> out.json, type |-> typeName,
                  err |-> IF parsed.ok THEN ErrNone ELSE ErrUnmarshal]

\* decodeWithType returning the type name along with an error
decodeWithType_TypeOnError(mt, data, typeName) ==
    IF ~HasKey(mt, typeName) THEN DecodeFailure(ErrUnknownType)
    ELSE LET parsed == protoUnmarshal(data, mt[typeName])
         IN IF ~parsed.ok
            THEN [jsonNil |-> TRUE, json |-> EmptyMap, type |-> typeName, err |-> ErrUnmarshal]
            ELSE LET out == protojsonMarshal(mt[typeName], parsed.msg, FALSE, TRUE)
                 IN IF ~out.ok THEN DecodeFailure(ErrMarshalJSON)
                    ELSE [jsonNil |-> FALSE, json |-> out.json, type |-> typeName,
                          err |-> ErrNone]

decodeWithType(mt, data, typeName) ==
    IF ~HasKey(mt, typeName) THEN DecodeFailure(ErrUnknownType)
    ELSE LET parsed == protoUnmarshal(data, mt[typeName])
         IN IF ~parsed.ok THEN DecodeFailure(ErrUnmarshal)
            ELSE LET out == protojsonMarshal(mt[typeName], parsed.msg, FALSE, TRUE)
                 IN IF ~out.ok THEN DecodeFailure(ErrMarshalJSON)
                    ELSE [jsonNil |-> FALSE, json |-> out.json, type |-> typeName,
                          err |-> ErrNone]

\* Decode without the check of d.defaultType
Decode_NoRequiredCheck(mt, dflt, data) == decodeWithType(mt, data, dflt)

Decode(mt, dflt, data) ==
    IF dflt = "" THEN DecodeFailure(ErrTypeRequired)
    ELSE decodeWithType(mt, data, dflt)

\* d.Decode(data) storing an empty message type under a name it missed
DecodeMethod_StoresMiss(mt, dflt, data) ==
    [messageTypes |-> IF dflt # "" /\ ~HasKey(mt, dflt) THEN MapPut(mt, dflt, MsgDeep) ELSE mt,
     defaultType |-> dflt,
     result |-> Decode(mt, dflt, data)]

\* d.Decode(data) as a method: the fields of d after the call, which no
\* statement of Decode or decodeWithType assigns, and what the call returns
DecodeMethod(mt, dflt, data) ==
    [messageTypes |-> mt, defaultType |-> dflt, result |-> Decode(mt, dflt, data)]

\* Decoder.MessageTypes: the keys, in the order the map iteration gives
MessageTypes(mt) == Orderings(DOMAIN mt)

\* Decoder.GetMessageTypes: the map itself
GetMessageTypes(mt) == mt

\* (nil, err)
EncodeFailure(err) == [bytesNil |-> TRUE, bytes |-> <<>>, err |-> err]

\* encodeMessage with DiscardUnknown set
encodeMessage_DiscardUnknown(mt, msgTypeName, jsonData) ==
    IF ~HasKey(mt, msgTypeName) THEN {EncodeFailure(ErrTypeNotFound)}
    ELSE LET parsed == protojsonUnmarshal(jsonData, mt[msgTypeName], TRUE)
         IN IF ~parsed.ok THEN {EncodeFailure(ErrJSONToProto)}
            ELSE {[bytesNil |-> FALSE, bytes |-> b, err |-> ErrNone] :
                    b \in protoMarshal(mt[msgTypeName], parsed.msg)}

\* the results encodeMessage can return: one per order of the marshalled fields
encodeMessage(mt, msgTypeName, jsonData) ==
    IF ~HasKey(mt, msgTypeName) THEN {EncodeFailure(ErrTypeNotFound)}
    ELSE LET parsed == protojsonUnmarshal(jsonData, mt[msgTypeName], FALSE)
         IN IF ~parsed.ok THEN {EncodeFailure(ErrJSONToProto)}
            ELSE {[bytesNil |-> FALSE, bytes |-> b, err |-> ErrNone] :
                    b \in protoMarshal(mt[msgTypeName], parsed.msg)}

-----------------------------------------------------------------------------
(* internal/formatter: Message, New, and the Format of each formatter *)

\* string values of a payload that are 47, 48 and 49 bytes long
Pad47 == "xxxxxxxxxxxxxxxxxxxxxxxxxxxxxxxxxxxxxxxxxxxxxxx"
Pad48 == "xxxxxxxxxxxxxxxxxxxxxxxxxxxxxxxxxxxxxxxxxxxxxxxx"
Pad49 == "xxxxxxxxxxxxxxxxxxxxxxxxxxxxxxxxxxxxxxxxxxxxxxxxx"

\* the bytes of a length-delimited value
TextBytes(val) ==
    CASE val = "" -> <<>>
      [] val = "u1" -> <<117, 49>>
      [] val = BadUtf8 -> <<255>>
      [] val = TimeOk -> <<8, 229, 146, 149, 173, 6>>
      [] val = TimeOutOfRange -> <<8, 255, 159, 148, 165, 141, 29>>
      [] val = Pad47 -> [i \in 1..47 |-> 120]
      [] val = Pad48 -> [i \in 1..48 |-> 120]
      [] val = Pad49 -> [i \in 1..49 |-> 120]

\* the byte of a varint value
VarintByte(val) ==
    CASE val = "0" -> 0
      [] val = "1" -> 1
      [] val = "5" -> 5
      [] val = "7" -> 7

\* the bytes of one field: the tag, then the varint or the length and the
\* value; a truncated field announces five bytes and holds none
ItemBytes(item) ==
    CASE item.wt = "varint" -> <<item.num * 8, VarintByte(item.val)>>
      [] item.wt = "len" ->
            <<item.num * 8 + 2, Len(TextBytes(item.val))>> \o TextBytes(item.val)
      [] OTHER -> <<item.num * 8 + 2, 5>>

\* record.Value as []byte
RECURSIVE WireBytes(_)
WireBytes(items) ==
    IF items = <<>> THEN <<>> ELSE ItemBytes(Head(items)) \o WireBytes(Tail(items))

HexDigits == <<"0", "1", "2", "3", "4", "5", "6", "7", "8", "9", "a", "b", "c", "d", "e", "f">>

UpperHexDigits ==
    <<"0", "1", "2", "3", "4", "5", "6", "7", "8", "9", "A", "B", "C", "D", "E", "F">>

\* hex.EncodeToString: two digits per byte, as a sequence of characters
RECURSIVE EncodeToString(_)
EncodeToString(bytes) ==
    IF bytes = <<>> THEN <<>>
    ELSE <<HexDigits[(Head(bytes) \div 16) + 1], HexDigits[(Head(bytes) % 16) + 1]>>
         \o EncodeToString(Tail(bytes))

\* the number of hex characters the table and pretty formats show
HexShown == 100

\* the Go slice expression s[:n]: a run-time panic when n exceeds len(s)
SliceTo(s, n) == [panic |-> n > Len(s), text |-> IF n > Len(s) THEN <<>> ELSE SubSeq(s, 1, n)]

\* min of formatter.go
min(a, b) == IF a < b THEN a ELSE b

FormatNames == {"json", "json-compact", "table", "raw", "pretty"}

ErrUnknownFormat == "unknown format"

\* formatter.New(format)
New(format) ==
    CASE format = "json" -> [err |-> ErrNone, kind |-> "json", indent |-> TRUE]
      [] format = "json-compact" -> [err |-> ErrNone, kind |-> "json", indent |-> FALSE]
      [] format = "table" -> [err |-> ErrNone, kind |-> "table", indent |-> FALSE]
      [] format = "raw" -> [err |-> ErrNone, kind |-> "raw", indent |-> FALSE]
      [] format = "pretty" -> [err |-> ErrNone, kind |-> "pretty", indent |-> FALSE]
      [] OTHER -> [err |-> ErrUnknownFormat, kind |-> "", indent |-> FALSE]

\* what a call of Format did: the pieces written to os.Stdout in order, and
\* whether it returned or panicked
Returned(written) == [panic |-> FALSE, err |-> ErrNone, stdout |-> written]
Panicked(written) == [panic |-> TRUE, err |-> ErrNone, stdout |-> written]

\* one piece of output
Line(label, text) == [label |-> label, text |-> text]

\* msg.Value as json.Marshal renders it
ValueOf(msg) == IF msg.ValueNil THEN JNull ELSE msg.Value

\* the members of the object of JSONFormatter.Format, given the text put
\* under raw_value_hex (topic and timestamp, always present, are not part of
\* the model's Message)
JSONObject(msg, hexText) ==
    LET keys == {"partition", "offset", "key"}
                \cup (IF msg.MessageType # "" THEN {"message_type"} ELSE {})
                \cup (IF msg.Error # "" THEN {"error", "raw_value_hex"} ELSE {"value"})
    IN [k \in keys |->
          CASE k = "partition" -> msg.Partition
            [] k = "offset" -> msg.Offset
            [] k = "key" -> msg.Key
            [] k = "message_type" -> msg.MessageType
            [] k = "error" -> msg.Error
            [] k = "raw_value_hex" -> hexText
            [] OTHER -> ValueOf(msg)]

\* JSONFormatter.Format showing at most HexShown characters of the payload
JSONFormatterFormat_Truncating(indent, msg) ==
    LET hexText == EncodeToString(WireBytes(msg.RawValue))
        shown == SliceTo(hexText, min(HexShown, Len(hexText))).text
    IN Returned(<<Line(IF indent THEN "json" ELSE "json-compact", JSONObject(msg, shown))>>)

\* JSONFormatter.Format: every Value the program passes comes from
\* json.Unmarshal or is a string, so json.Marshal renders it
JSONFormatterFormat(indent, msg) ==
    Returned(<<Line(IF indent THEN "json" ELSE "json-compact",
                    JSONObject(msg, EncodeToString(WireBytes(msg.RawValue))))>>)

\* the lines TableFormatter.Format prints before the value or the error
TableHead(msg) ==
    <<Line("Partition", msg.Partition), Line("Offset", msg.Offset), Line("Key", msg.Key)>>
    \o (IF msg.MessageType # "" THEN <<Line("Type", msg.MessageType)>> ELSE <<>>)

\* TableFormatter.Format with the slice bounded as in PrettyFormatter
TableFormatterFormat_Bounded(msg) ==
    IF msg.Error # ""
    THEN LET hexText == EncodeToString(WireBytes(msg.RawValue))
             raw == SliceTo(hexText, min(HexShown, Len(hexText)))
         IN Returned(TableHead(msg)
                     \o <<Line("Error", msg.Error), Line("Raw (hex)", raw.text \o <<"...">>)>>)
    ELSE Returned(TableHead(msg) \o <<Line("Value", ValueOf(msg))>>)

\* TableFormatter.Format: the arguments of the Printf of the raw payload are
\* evaluated after the Error line is printed
TableFormatterFormat(msg) ==
    IF msg.Error # ""
    THEN LET raw == SliceTo(EncodeToString(WireBytes(msg.RawValue)), HexShown)
         IN IF raw.panic THEN Panicked(TableHead(msg) \o <<Line("Error", msg.Error)>>)
            ELSE Returned(TableHead(msg)
                          \o <<Line("Error", msg.Error),
                               Line("Raw (hex)", raw.text \o <<"...">>)>>)
    ELSE Returned(TableHead(msg) \o <<Line("Value", ValueOf(msg))>>)

\* RawFormatter.Format
RawFormatterFormat(msg) ==
    IF msg.Error # "" THEN Returned(<<Line("bytes", WireBytes(msg.RawValue)), Line("newline", "")>>)
    ELSE Returned(<<Line("value", ValueOf(msg)), Line("newline", "")>>)

\* PrettyFormatter.Format
PrettyFormatterFormat(msg) ==
    LET header == <<Line("header", [Partition |-> msg.Partition, Offset |-> msg.Offset,
                                    Key |-> msg.Key, Type |-> msg.MessageType])>>
    IN IF msg.Error # ""
       THEN IF Len(WireBytes(msg.RawValue)) > 0
            THEN LET raw == SliceTo(EncodeToString(WireBytes(msg.RawValue)),
                                    min(HexShown, Len(WireBytes(msg.RawValue)) * 2))
                 IN IF raw.panic THEN Panicked(header \o <<Line("Error", msg.Error)>>)
                    ELSE Returned(header \o <<Line("Error", msg.Error),
                                              Line("Raw", raw.text \o <<"...">>)>>)
            ELSE Returned(header \o <<Line("Error", msg.Error)>>)
       ELSE Returned(header \o <<Line("Value", ValueOf(msg))>>)

\* f.Format(msg) on the formatter New returned
Format(f, msg) ==
    CASE f.kind = "json" -> JSONFormatterFormat(f.indent, msg)
      [] f.kind = "table" -> TableFormatterFormat(msg)
      [] f.kind = "raw" -> RawFormatterFormat(msg)
      [] OTHER -> PrettyFormatterFormat(msg)

-----------------------------------------------------------------------------
(* Idle values of the parts a specification does not exercise *)

NoCall == [op |-> "none"]

NoCfg == [Count |-> 0, Follow |-> FALSE, KeyFilter |-> "", OutputFormat |-> "json",
          Verbose |-> FALSE]

CallIdle == call = NoCall

NoFetches == [err |-> FALSE, parts |-> <<>>]

RunIdle ==
    /\ cfg = NoCfg
    /\ topicLog = <<>>
    /\ fetchPos = <<>>
    /\ fetches = NoFetches
    /\ outputs = <<>>
    /\ messageCount = 0
    /\ decoded = <<>>
    /\ stdout = <<>>
    /\ stderr = <<>>
    /\ ctxDone = FALSE
    /\ runPc = "idle"

NoSource == [exists |-> FALSE]

NoTempDir == [exists |-> FALSE, image |-> "none"]

\* no other process loads through the tool
ShareIdle ==
    /\ tempDir = NoTempDir
    /\ procs = <<>>

\* the decoder is built from a descriptor set given directly
SrcIdle ==
    /\ protoPath = NoSource
    /\ effects = <<>>
    /\ ShareIdle

Running == ""

CmdIdle == exitStatus = Running

ProdIdle ==
    /\ lines = <<>>
    /\ lineIdx = 1
    /\ reports = <<>>
    /\ encodeCalls = <<>>
    /\ sent = <<>>
    /\ producedCount = 0
    /\ prodPc = "idle"

-----------------------------------------------------------------------------
(* NewDecoder on a descriptor set: the load, one file per step *)

Init ==
    /\ fdSet \in DescriptorSets
    /\ defaultType \in TypeNames
    /\ fileIdx = 1
    /\ messageTypes = EmptyMap
    /\ registry = {}
    /\ loadPc = "loading"
    /\ loadErr = ErrNone
    /\ CallIdle
    /\ RunIdle
    /\ SrcIdle
    /\ CmdIdle
    /\ ProdIdle

\* one iteration of `for _, fdProto := range fdSet.File`; an error returns
\* through loadWithBuf when the set came from the tool
LoadNextFile ==
    /\ loadPc = "loading"
    /\ fileIdx <= Len(fdSet)
    /\ LET d == LoadFile([messageTypes |-> messageTypes, registry |-> registry,
                          err |-> ErrNone], fdSet[fileIdx])
       IN /\ messageTypes' = d.messageTypes
          /\ registry' = d.registry
          /\ loadErr' = d.err
          /\ loadPc' = IF d.err = ErrNone THEN "loading" ELSE "failed"
          /\ fileIdx' = IF d.err = ErrNone THEN fileIdx + 1 ELSE fileIdx
          /\ effects' = IF d.err = ErrNone THEN effects ELSE RunDeferred(effects)
    /\ UNCHANGED <<fdSet, defaultType, callVars, runVars, protoPath, shareVars, cmdVars,
                   prodVars>>

\* the end of the loop: the zero-entries check, the return through
\* loadWithBuf when the set came from the tool, and NewDecoder's return
LoadDone ==
    /\ loadPc = "loading"
    /\ fileIdx > Len(fdSet)
    /\ LET d == FinishLoad([messageTypes |-> messageTypes, registry |-> registry,
                            err |-> ErrNone])
       IN /\ loadErr' = d.err
          /\ loadPc' = IF d.err = ErrNone THEN "ready" ELSE "failed"
    /\ effects' = RunDeferred(effects)
    /\ UNCHANGED <<fdSet, fileIdx, messageTypes, registry, defaultType, callVars, runVars,
                   protoPath, shareVars, cmdVars, prodVars>>

\* dec.MessageTypeCount() on the returned decoder
CallMessageTypeCount ==
    /\ loadPc = "ready"
    /\ exitStatus = Running
    /\ call = NoCall
    /\ call' = [op |-> "MessageTypeCount", result |-> MessageTypeCount(messageTypes)]
    /\ UNCHANGED <<loadVars, runVars, srcVars, cmdVars, prodVars>>

Next ==
    \/ LoadNextFile
    \/ LoadDone
    \/ CallMessageTypeCount

Spec == Init /\ [][Next]_vars

-----------------------------------------------------------------------------
(* Calls on a constructed decoder: Decode, encodeMessage, and a produced
   payload read back by a consumer configured with the same type *)

\* descriptor sets the decoders of this part are loaded from
CodecSets == {<<FileA>>, <<FileB>>, <<FileA, FileA2>>, <<FileX, FileA, FileO>>}

InitCodec ==
    /\ fdSet \in CodecSets
    /\ defaultType \in TypeNames
    /\ fileIdx = Len(fdSet) + 1
    /\ LET d == loadDescriptorSet(fdSet)
       IN /\ d.err = ErrNone
          /\ messageTypes = d.messageTypes
          /\ registry = d.registry
    /\ loadPc = "ready"
    /\ loadErr = ErrNone
    /\ CallIdle
    /\ RunIdle
    /\ SrcIdle
    /\ CmdIdle
    /\ ProdIdle

\* d.Decode(data)
CallDecode ==
    /\ loadPc = "ready"
    /\ exitStatus = Running
    /\ call = NoCall
    /\ \E data \in Payloads :
          LET after == DecodeMethod(messageTypes, defaultType, data)
          IN /\ call' = [op |-> "Decode", data |-> data, result |-> after.result]
             /\ messageTypes' = after.messageTypes
             /\ defaultType' = after.defaultType
    /\ UNCHANGED <<fdSet, fileIdx, registry, loadPc, loadErr, runVars, srcVars, cmdVars,
                   prodVars>>

\* encodeMessage(dec, msgTypeName, jsonData)
CallEncode ==
    /\ loadPc = "ready"
    /\ exitStatus = Running
    /\ call = NoCall
    /\ \E name \in TypeNames, doc \in JsonDocs :
          \E res \in encodeMessage(messageTypes, name, doc) :
             call' = [op |-> "encodeMessage", type |-> name, json |-> doc, result |-> res]
    /\ UNCHANGED <<loadVars, runVars, srcVars, cmdVars, prodVars>>

\* produce encodes a line with the configured type; consume, configured with
\* the same type, decodes the record's value
ProduceThenConsume ==
    /\ loadPc = "ready"
    /\ exitStatus = Running
    /\ call = NoCall
    /\ \E doc \in JsonDocs :
          \E enc \in encodeMessage(messageTypes, defaultType, doc) :
             /\ enc.err = ErrNone
             /\ call' = [op |-> "roundtrip", json |-> doc, encoded |-> enc,
                         result |-> Decode(messageTypes, defaultType, enc.bytes)]
    /\ UNCHANGED <<loadVars, runVars, srcVars, cmdVars, prodVars>>

\* dec.MessageTypes()
CallMessageTypes ==
    /\ loadPc = "ready"
    /\ exitStatus = Running
    /\ call = NoCall
    /\ \E names \in MessageTypes(messageTypes) :
          call' = [op |-> "MessageTypes", result |-> names]
    /\ UNCHANGED <<loadVars, runVars, srcVars, cmdVars, prodVars>>

\* dec.GetMessageTypes()
CallGetMessageTypes ==
    /\ loadPc = "ready"
    /\ exitStatus = Running
    /\ call = NoCall
    /\ call' = [op |-> "GetMessageTypes", result |-> GetMessageTypes(messageTypes)]
    /\ UNCHANGED <<loadVars, runVars, srcVars, cmdVars, prodVars>>

\* the caller is done with the result; the decoder is called again
CallReturn ==
    /\ call # NoCall
    /\ call' = NoCall
    /\ UNCHANGED <<loadVars, runVars, srcVars, cmdVars, prodVars>>

NextCodec ==
    \/ CallDecode
    \/ CallEncode
    \/ CallMessageTypeCount
    \/ CallMessageTypes
    \/ CallGetMessageTypes
    \/ ProduceThenConsume
    \/ CallReturn

SpecCodec == InitCodec /\ [][NextCodec]_vars

-----------------------------------------------------------------------------
(* NewDecoder on a path, inside a command (list, consume, produce) *)

InitSource ==
    /\ protoPath \in Sources
    /\ effects = <<>>
    /\ ShareIdle
    /\ defaultType \in {"", "pkg.Msg"}
    /\ fdSet = <<>>
    /\ fileIdx = 1
    /\ messageTypes = EmptyMap
    /\ registry = {}
    /\ loadPc = "start"
    /\ loadErr = ErrNone
    /\ CallIdle
    /\ RunIdle
    /\ CmdIdle
    /\ ProdIdle

\* NewDecoder up to the loop of loadDescriptorSet: the stat, the choice of
\* the loader, the read or the build, the parse
OpenSource ==
    /\ loadPc = "start"
    /\ LET res == loadProtoDefinitions(protoPath)
       IN /\ effects' = res.effects
          /\ fdSet' = res.files
          /\ loadErr' = res.err
          /\ loadPc' = IF res.err = ErrNone THEN "loading" ELSE "failed"
    /\ UNCHANGED <<protoPath, shareVars, fileIdx, messageTypes, registry, defaultType,
                   callVars, runVars, cmdVars, prodVars>>

\* `if err != nil { ...; os.Exit(1) }` after NewDecoder
ExitOnLoadError ==
    /\ loadPc = "failed"
    /\ exitStatus = Running
    /\ exitStatus' = "1"
    /\ UNCHANGED <<loadVars, callVars, runVars, srcVars, prodVars>>

\* the command's work with the decoder is over: the process ends normally
ExitAfterUse ==
    /\ loadPc = "ready"
    /\ exitStatus = Running
    /\ call = NoCall
    /\ exitStatus' = "0"
    /\ UNCHANGED <<loadVars, callVars, runVars, srcVars, prodVars>>

NextSource ==
    \/ OpenSource
    \/ LoadNextFile
    \/ LoadDone
    \/ ExitOnLoadError
    \/ CallMessageTypeCount
    \/ CallDecode
    \/ CallReturn
    \/ ExitAfterUse

SpecSource == InitSource /\ [][NextSource]_vars

-----------------------------------------------------------------------------
(* runProduce: the loop over the input lines *)

\* strings.TrimSpace(scanner.Text()) == ""
BlankLine == [k \in {""} |-> JNull]

DocGood == [k \in {"user_id"} |-> JStr("u1")]
\* a member no field of pkg.Msg matches, beside one that matches
DocUnknown == [k \in {"user_id", "bogus"} |-> IF k = "bogus" THEN JNum("7") ELSE JStr("u1")]
\* the unmatched member alone, null
DocUnknownNull == [k \in {"bogus"} |-> JNull]
\* a string where count takes a number
DocWrong == [k \in {"count"} |-> JStr("u1")]

LineUniverse == {BlankLine, NotJSON, JsonScalar, DocGood, DocUnknown, DocUnknownNull, DocWrong}

RepInvalidJSON == "Invalid JSON"
RepEncodeFailed == "Failed to encode message"
RepProduceFailed == "Failed to produce message"
RepProduced == "Produced message"
RepReadError == "Error reading input"
RepSummary == "Produced messages successfully"

\* a line written to stderr: about which input line, what, the wrapped
\* error, the count printed
Report(n, what, err, count) == [line |-> n, what |-> what, err |-> err, count |-> count]

\* the loop body counting a record whose send was not acknowledged
ProduceLine_CountsUnacked(st, n, line, mt, msgTypeName, acked) ==
    IF line = BlankLine THEN {st}
    ELSE IF ~jsonValid(line)
    THEN {[st EXCEPT !.reports = Append(@, Report(n, RepInvalidJSON, "", 0))]}
    ELSE {LET called == [st EXCEPT !.encodeCalls = Append(@, n)]
              record == [line |-> n, Value |-> enc.bytes, acked |-> acked]
          IN IF enc.err # ErrNone
             THEN [called EXCEPT !.reports = Append(@, Report(n, RepEncodeFailed, enc.err, 0))]
             ELSE [called EXCEPT
                     !.sent = Append(@, record),
                     !.messageCount = @ + 1,
                     !.reports = Append(@, Report(n, RepProduced, "", called.messageCount + 1))]
          : enc \in encodeMessage(mt, msgTypeName, line)}

\* the loop body without the json.Unmarshal validation
ProduceLine_NoValidation(st, n, line, mt, msgTypeName, acked) ==
    IF line = BlankLine THEN {st}
    ELSE {LET called == [st EXCEPT !.encodeCalls = Append(@, n)]
              record == [line |-> n, Value |-> enc.bytes, acked |-> acked]
          IN IF enc.err # ErrNone
             THEN [called EXCEPT !.reports = Append(@, Report(n, RepEncodeFailed, enc.err, 0))]
             ELSE IF ~acked
             THEN [called EXCEPT
                     !.sent = Append(@, record),
                     !.reports = Append(@, Report(n, RepProduceFailed, "", 0))]
             ELSE [called EXCEPT
                     !.sent = Append(@, record),
                     !.messageCount = @ + 1,
                     !.reports = Append(@, Report(n, RepProduced, "", called.messageCount + 1))]
          : enc \in encodeMessage(mt, msgTypeName, line)}

\* the body of `for scanner.Scan()` for input line n: st is [reports,
\* encodeCalls, sent, messageCount]; `acked` is whether ProduceSync returns
\* without error; the result is the set of states the body can end in
ProduceLine(st, n, line, mt, msgTypeName, acked) ==
    IF line = BlankLine THEN {st}
    ELSE IF ~jsonValid(line)
    THEN {[st EXCEPT !.reports = Append(@, Report(n, RepInvalidJSON, "", 0))]}
    ELSE {LET called == [st EXCEPT !.encodeCalls = Append(@, n)]
              record == [line |-> n, Value |-> enc.bytes, acked |-> acked]
          IN IF enc.err # ErrNone
             THEN [called EXCEPT !.reports = Append(@, Report(n, RepEncodeFailed, enc.err, 0))]
             ELSE IF ~acked
             THEN [called EXCEPT
                     !.sent = Append(@, record),
                     !.reports = Append(@, Report(n, RepProduceFailed, "", 0))]
             ELSE [called EXCEPT
                     !.sent = Append(@, record),
                     !.messageCount = @ + 1,
                     !.reports = Append(@, Report(n, RepProduced, "", called.messageCount + 1))]
          : enc \in encodeMessage(mt, msgTypeName, line)}

\* runProduce after NewDecoder and kgo.NewClient succeeded
InitProduce ==
    /\ fdSet = <<FileA>>
    /\ defaultType \in {"pkg.Msg", "pkg.Nope"}
    /\ fileIdx = Len(fdSet) + 1
    /\ LET d == loadDescriptorSet(fdSet)
       IN /\ messageTypes = d.messageTypes
          /\ registry = d.registry
    /\ loadPc = "ready"
    /\ loadErr = ErrNone
    /\ CallIdle
    /\ RunIdle
    /\ SrcIdle
    /\ CmdIdle
    /\ lines \in SeqsUpTo(LineUniverse, MaxLines)
    /\ lineIdx = 1
    /\ reports = <<>>
    /\ encodeCalls = <<>>
    /\ sent = <<>>
    /\ producedCount = 0
    /\ prodPc = "scanning"

\* scanner.Scan() delivers the next line and the loop body runs on it
ScanLine ==
    /\ prodPc = "scanning"
    /\ lineIdx <= Len(lines)
    /\ \E acked \in BOOLEAN :
          \E st \in ProduceLine([reports |-> reports, encodeCalls |-> encodeCalls,
                                 sent |-> sent, messageCount |-> producedCount],
                                lineIdx, lines[lineIdx], messageTypes, defaultType, acked) :
             /\ reports' = st.reports
             /\ encodeCalls' = st.encodeCalls
             /\ sent' = st.sent
             /\ producedCount' = st.messageCount
    /\ lineIdx' = lineIdx + 1
    /\ UNCHANGED <<loadVars, callVars, runVars, srcVars, cmdVars, lines, prodPc>>

\* scanner.Scan() returns false with scanner.Err() set, in place of the next
\* line (a read error, or a line longer than the scanner's buffer): exit 1
ScanFails ==
    /\ prodPc = "scanning"
    /\ lineIdx <= Len(lines)
    /\ reports' = Append(reports, Report(lineIdx, RepReadError, "", 0))
    /\ exitStatus' = "1"
    /\ prodPc' = "done"
    /\ UNCHANGED <<loadVars, callVars, runVars, srcVars, lines, lineIdx, encodeCalls, sent,
                   producedCount>>

\* scanner.Scan() returns false at the end of the input: the summary, return
ScanEnds ==
    /\ prodPc = "scanning"
    /\ lineIdx > Len(lines)
    /\ reports' = Append(reports, Report(lineIdx, RepSummary, "", producedCount))
    /\ exitStatus' = "0"
    /\ prodPc' = "done"
    /\ UNCHANGED <<loadVars, callVars, runVars, srcVars, lines, lineIdx, encodeCalls, sent,
                   producedCount>>

NextProduce ==
    \/ ScanLine
    \/ ScanFails
    \/ ScanEnds

SpecProduce == InitProduce /\ [][NextProduce]_vars

-----------------------------------------------------------------------------
(* Two processes in loadWithBuf at the same time: both use the directory
   os.TempDir()/buf-kcat-descriptors and the file image.bin in it *)

Procs == {"p1", "p2"}

\* what `buf build` does in the module of a process
BuildOutcomes == {"builds", "fails"}

\* the process is in loadWithBuf, before os.MkdirAll
ProcStart(outcome) == [pc |-> "mkdir", build |-> outcome, got |-> "none", err |-> ErrNone]

InitTwoLoads ==
    /\ tempDir \in {NoTempDir, [exists |-> TRUE, image |-> "none"]}
    /\ procs \in [Procs -> {ProcStart(o) : o \in BuildOutcomes}]
    /\ protoPath = NoSource
    /\ effects = <<>>
    /\ fdSet = <<>>
    /\ defaultType = ""
    /\ fileIdx = 1
    /\ messageTypes = EmptyMap
    /\ registry = {}
    /\ loadPc = "start"
    /\ loadErr = ErrNone
    /\ CallIdle
    /\ RunIdle
    /\ CmdIdle
    /\ ProdIdle

\* os.MkdirAll(tempDir, 0755): the directory exists afterwards, with what it
\* held; the removal is deferred
ProcMkdir(p) ==
    /\ procs[p].pc = "mkdir"
    /\ tempDir' = [tempDir EXCEPT !.exists = TRUE]
    /\ procs' = [procs EXCEPT ![p].pc = "build"]
    /\ UNCHANGED <<loadVars, callVars, runVars, protoPath, effects, cmdVars, prodVars>>

\* cmd.Run() of `buf build -o tempDir/image.bin`: the image is written into
\* the directory, which must exist
ProcBuild(p) ==
    /\ procs[p].pc = "build"
    /\ IF procs[p].build = "builds" /\ tempDir.exists
       THEN /\ tempDir' = [tempDir EXCEPT !.image = p]
            /\ procs' = [procs EXCEPT ![p].pc = "read"]
       ELSE /\ tempDir' = tempDir
            /\ procs' = [procs EXCEPT ![p].pc = "return", ![p].err = ErrBufBuild]
    /\ UNCHANGED <<loadVars, callVars, runVars, protoPath, effects, cmdVars, prodVars>>

\* os.ReadFile(descriptorFile): the bytes image.bin holds now
ProcRead(p) ==
    /\ procs[p].pc = "read"
    /\ procs' = IF tempDir.exists /\ tempDir.image # "none"
                THEN [procs EXCEPT ![p].pc = "return", ![p].got = tempDir.image]
                ELSE [procs EXCEPT ![p].pc = "return", ![p].err = ErrReadImage]
    /\ UNCHANGED <<loadVars, callVars, runVars, protoPath, effects, tempDir, cmdVars,
                   prodVars>>

\* loadWithBuf returns: the deferred os.RemoveAll(tempDir)
ProcReturn(p) ==
    /\ procs[p].pc = "return"
    /\ tempDir' = NoTempDir
    /\ procs' = [procs EXCEPT ![p].pc = "done"]
    /\ UNCHANGED <<loadVars, callVars, runVars, protoPath, effects, cmdVars, prodVars>>

NextTwoLoads ==
    \E p \in Procs :
        \/ ProcMkdir(p)
        \/ ProcBuild(p)
        \/ ProcRead(p)
        \/ ProcReturn(p)

SpecTwoLoads == InitTwoLoads /\ [][NextTwoLoads]_vars

-----------------------------------------------------------------------------
(* Consumer.Run *)

GoodPayload == <<Item(1, "len", "u1")>>
BadPayload == <<Item(1, "len", "u1"), Item(1, "trunc", "")>>

\* what a producer wrote: key and value
RecordUniverse ==
    {[Key |-> "k1", Value |-> GoodPayload],
     [Key |-> "k1", Value |-> BadPayload],
     [Key |-> "k2", Value |-> GoodPayload]}

RECURSIVE LogsWithin(_, _)
\* the contents of n partitions that hold at most `budget` records
\* together, no partition holding more than the one before it (the numbering
\* of the partitions is arbitrary)
LogsWithin(n, budget) ==
    IF n = 0 THEN {<<>>}
    ELSE UNION {{Append(rest, log) :
                    rest \in {r \in LogsWithin(n - 1, budget - Len(log)) :
                                r = <<>> \/ Len(log) <= Len(r[Len(r)])}} :
                  log \in SeqsUpTo(RecordUniverse, budget)}

Partitions == 1..NumPartitions

\* the kgo.Record at index i of partition p
RecordAt(log, p, i) ==
    [Partition |-> p, Offset |-> i - 1, Key |-> log[p][i].Key, Value |-> log[p][i].Value]

\* the formatter.Message of a record that failed to decode
ErrorMessage(record, err) ==
    [Partition |-> record.Partition, Offset |-> record.Offset, Key |-> record.Key,
     MessageType |-> "", ValueNil |-> TRUE, Value |-> EmptyMap,
     Error |-> err, RawValue |-> record.Value]

\* the formatter.Message of a decoded record
ValueMessage(record, msgType, value) ==
    [Partition |-> record.Partition, Offset |-> record.Offset, Key |-> record.Key,
     MessageType |-> msgType, ValueNil |-> FALSE, Value |-> value,
     Error |-> "", RawValue |-> <<>>]

\* lines written to os.Stderr
LogConnected == "Connected to Kafka brokers"
LogStarting == "Starting to consume from topic"
LogMessageType == "Message type"
LogFiltering == "Filtering by key"
LogWillConsume == "Will consume messages"
LogFollowing == "Following topic"
LogWaiting == "Waiting for messages..."
LogShuttingDown == "Shutting down..."
LogFetchError == "Fetch error"
LogDecodeFailed == "Failed to decode message"
LogFormatFailed == "Failed to format output"

\* the lines Run writes before the loop (the message type is never empty:
\* NewConsumer rejects it)
StatusLines(c) ==
    <<LogConnected, LogStarting, LogMessageType>>
    \o (IF c.KeyFilter # "" THEN <<LogFiltering>> ELSE <<>>)
    \o (IF c.Count > 0 THEN <<LogWillConsume>> ELSE <<>>)
    \o (IF c.Follow THEN <<LogFollowing>> ELSE <<>>)
    \o <<LogWaiting>>

\* the body of the range loop writing the decode diagnostic to os.Stdout
HandleRecord_DiagnosticToStdout(st, record, c, mt, dflt) ==
    LET res == Decode(mt, dflt, record.Value)
        output == IF res.err # ErrNone THEN ErrorMessage(record, res.err)
                  ELSE ValueMessage(record, res.type, res.json)
        diag == IF res.err # ErrNone /\ c.Verbose
                THEN <<Line("diagnostic", LogDecodeFailed)>> ELSE <<>>
        shown == Format(New(c.OutputFormat), output)
    IN [outputs |-> Append(st.outputs, output),
        decoded |-> Append(st.decoded, record),
        stdout |-> st.stdout \o diag \o shown.stdout,
        stderr |-> st.stderr,
        panic |-> shown.panic,
        messageCount |-> IF shown.panic THEN st.messageCount ELSE st.messageCount + 1]

\* the body of `for _, record := range p.Records` for a record that passed
\* the key filter: Decode, the diagnostic when verbose, the Message, Format
\* (a Format that panics ends the process before messageCount++), the
\* count. st is [outputs, decoded, stdout, stderr, panic, messageCount].
\* Format returns no error on a Message built here, so "Failed to format
\* output" is never written.
HandleRecord(st, record, c, mt, dflt) ==
    LET res == Decode(mt, dflt, record.Value)
        output == IF res.err # ErrNone THEN ErrorMessage(record, res.err)
                  ELSE ValueMessage(record, res.type, res.json)
        diag == IF res.err # ErrNone /\ c.Verbose THEN <<LogDecodeFailed>> ELSE <<>>
        shown == Format(New(c.OutputFormat), output)
    IN [outputs |-> Append(st.outputs, output),
        decoded |-> Append(st.decoded, record),
        stdout |-> st.stdout \o shown.stdout,
        stderr |-> st.stderr \o diag
                   \o (IF shown.err # ErrNone THEN <<LogFormatFailed>> ELSE <<>>),
        panic |-> shown.panic,
        messageCount |-> IF shown.panic THEN st.messageCount ELSE st.messageCount + 1]

RECURSIVE HandleRecords(_, _, _, _, _, _)
\* the loop body returning from the callback when Decode fails
HandleRecords_StopOnError(st, records, i, c, mt, dflt) ==
    IF i > Len(records) THEN st
    ELSE IF c.KeyFilter # "" /\ records[i].Key # c.KeyFilter
         THEN HandleRecords(st, records, i + 1, c, mt, dflt)
    ELSE LET after == HandleRecord(st, records[i], c, mt, dflt)
         IN IF \/ after.panic
               \/ c.Count > 0 /\ after.messageCount >= c.Count
               \/ Decode(mt, dflt, records[i].Value).err # ErrNone
            THEN after
            ELSE HandleRecords(after, records, i + 1, c, mt, dflt)

\* the loop body without the key filter
HandleRecords_NoFilter(st, records, i, c, mt, dflt) ==
    IF i > Len(records) THEN st
    ELSE LET after == HandleRecord(st, records[i], c, mt, dflt)
         IN IF after.panic \/ (c.Count > 0 /\ after.messageCount >= c.Count) THEN after
            ELSE HandleRecords(after, records, i + 1, c, mt, dflt)

\* the callback given to EachPartition, from record i on
HandleRecords(st, records, i, c, mt, dflt) ==
    IF i > Len(records) THEN st
    ELSE IF c.KeyFilter # "" /\ records[i].Key # c.KeyFilter
         THEN HandleRecords(st, records, i + 1, c, mt, dflt)
    ELSE LET after == HandleRecord(st, records[i], c, mt, dflt)
         IN IF after.panic \/ (c.Count > 0 /\ after.messageCount >= c.Count) THEN after
            ELSE HandleRecords(after, records, i + 1, c, mt, dflt)

RECURSIVE EachPartition(_, _, _, _, _, _)
\* fetches.EachPartition(callback), from partition k of the fetch on; a
\* panic of the callback ends it
EachPartition(st, parts, k, c, mt, dflt) ==
    IF k > Len(parts) \/ st.panic THEN st
    ELSE EachPartition(HandleRecords(st, parts[k].Records, 1, c, mt, dflt),
                       parts, k + 1, c, mt, dflt)

RECURSIVE NumRecords(_)
\* fetches.NumRecords()
NumRecords(parts) ==
    IF parts = <<>> THEN 0 ELSE Len(Head(parts).Records) + NumRecords(Tail(parts))

\* the records of the parts of a fetch, as p.Records
Batch(log, pos, q, n) ==
    [Partition |-> q, Records |-> [i \in 1..n |-> RecordAt(log, q, pos[q] + i)]]

\* the fetches a poll can return: per partition, some of the records not yet
\* fetched
PossibleFetches(log, pos) ==
    {[q \in Partitions |-> Batch(log, pos, q, take[q])] :
        take \in {t \in [Partitions -> 0..MaxRecords] :
                    \A q \in Partitions : pos[q] + t[q] <= Len(log[q])}}

\* the client's position once it has handed out `parts`
Advance(pos, parts) ==
    [q \in Partitions |->
        pos[q] + Len(parts[CHOOSE k \in DOMAIN parts : parts[k].Partition = q].Records)]

\* the two breaks after EachPartition, with an empty poll meaning a poll of
\* which nothing was output
LoopEnds_NothingOutput(c, count, parts, shown) ==
    \/ c.Count > 0 /\ count >= c.Count
    \/ ~c.Follow /\ shown = 0

\* the two breaks after EachPartition: the count, then the empty poll
\* without --follow; `shown` is the number of records the turn output
LoopEnds(c, count, parts, shown) ==
    \/ c.Count > 0 /\ count >= c.Count
    \/ ~c.Follow /\ NumRecords(parts) = 0

\* `if err := fetches.Err(); err != nil` ending the session
OnFetchError_Returns(log) ==
    [stderr |-> Append(log, LogFetchError), runPc |-> "returned"]

\* `if err := fetches.Err(); err != nil`: the line on os.Stderr, `continue`
OnFetchError(log) ==
    [stderr |-> Append(log, LogFetchError), runPc |-> "running"]

\* the select at the top of the loop never taking the ctx.Done() case
SelectDone_Ignored(done) ==
    "running"

\* the select at the top of the loop: return nil when ctx is done
SelectDone(done) ==
    IF done THEN "returned" ELSE "running"

\* the goroutine that waits on sigChan, up to cancel()
OnSignal(c, log) ==
    IF c.Verbose THEN Append(log, LogShuttingDown) ELSE log

\* the number of fetch errors written so far
FetchErrorsLogged == Len(SelectSeq(stderr, LAMBDA l : l = LogFetchError))

\* the formats a session is run with
RunFormats == {"json", "table"}

RunConfigs ==
    [Count : 0..MaxCount, Follow : BOOLEAN, KeyFilter : {"", "k1"}, OutputFormat : RunFormats,
     Verbose : BOOLEAN]

\* the decoder and the session before the first turn of the loop
RunStart ==
    /\ fdSet = <<FileA>>
    /\ defaultType = "pkg.Msg"
    /\ fileIdx = Len(fdSet) + 1
    /\ LET d == loadDescriptorSet(fdSet)
       IN /\ messageTypes = d.messageTypes
          /\ registry = d.registry
    /\ loadPc = "ready"
    /\ loadErr = ErrNone
    /\ CallIdle
    /\ SrcIdle
    /\ CmdIdle
    /\ ProdIdle
    /\ decoded = <<>>
    /\ fetchPos = [q \in Partitions |-> 0]
    /\ fetches = NoFetches
    /\ outputs = <<>>
    /\ stdout = <<>>
    /\ stderr = StatusLines(cfg)
    /\ messageCount = 0
    /\ ctxDone = FALSE
    /\ runPc = "running"

\* sessions in the default format, not verbose, on every topic
InitRun ==
    /\ cfg \in {c \in RunConfigs : c.OutputFormat = "json" /\ ~c.Verbose}
    /\ topicLog \in LogsWithin(NumPartitions, MaxRecords)
    /\ RunStart

\* one turn of the for loop with ctx not done and a fetch without error:
\* PollFetches, EachPartition, then the two break conditions
PollAndProcess ==
    /\ runPc = "running"
    /\ ~ctxDone
    /\ \E parts \in PossibleFetches(topicLog, fetchPos) :
          LET st == EachPartition([outputs |-> outputs, messageCount |-> messageCount,
                                   decoded |-> decoded, stdout |-> stdout,
                                   stderr |-> stderr, panic |-> FALSE],
                                  parts, 1, cfg, messageTypes, defaultType)
          IN /\ fetches' = [err |-> FALSE, parts |-> parts]
             /\ fetchPos' = Advance(fetchPos, parts)
             /\ outputs' = st.outputs
             /\ messageCount' = st.messageCount
             /\ decoded' = st.decoded
             /\ stdout' = st.stdout
             /\ stderr' = st.stderr
             /\ runPc' = IF st.panic THEN "panicked"
                         ELSE IF LoopEnds(cfg, st.messageCount, parts,
                                          Len(st.outputs) - Len(outputs))
                         THEN "returned" ELSE "running"
    /\ UNCHANGED <<loadVars, callVars, srcVars, cmdVars, prodVars, cfg, topicLog, ctxDone>>

\* one turn of the loop whose fetch reports an error: `continue`
PollFetchError ==
    /\ runPc = "running"
    /\ ~ctxDone
    /\ FetchErrorsLogged < MaxFetchErrors
    /\ \E parts \in PossibleFetches(topicLog, fetchPos) :
          /\ fetches' = [err |-> TRUE, parts |-> parts]
          /\ fetchPos' = Advance(fetchPos, parts)
    /\ stderr' = OnFetchError(stderr).stderr
    /\ runPc' = OnFetchError(stderr).runPc
    /\ UNCHANGED <<loadVars, callVars, srcVars, cmdVars, prodVars, cfg, topicLog, outputs,
                   messageCount, decoded, stdout, ctxDone>>

\* one turn of the loop during whose PollFetches the signal arrives: the
\* goroutine cancels ctx, the poll returns the context's error, `continue`
PollInterrupted ==
    /\ runPc = "running"
    /\ ~ctxDone
    /\ ctxDone' = TRUE
    /\ fetches' = [err |-> TRUE, parts |-> [q \in Partitions |-> Batch(topicLog, fetchPos, q, 0)]]
    /\ stderr' = OnFetchError(OnSignal(cfg, stderr)).stderr
    /\ runPc' = OnFetchError(OnSignal(cfg, stderr)).runPc
    /\ UNCHANGED <<loadVars, callVars, srcVars, cmdVars, prodVars, cfg, topicLog, fetchPos,
                   outputs, messageCount, decoded, stdout>>

\* SIGINT or SIGTERM between two polls: the goroutine calls cancel()
Signal ==
    /\ runPc = "running"
    /\ ~ctxDone
    /\ ctxDone' = TRUE
    /\ stderr' = OnSignal(cfg, stderr)
    /\ UNCHANGED <<loadVars, callVars, srcVars, cmdVars, prodVars, cfg, topicLog, fetchPos,
                   fetches, outputs, messageCount, decoded, stdout, runPc>>

\* the select at the top of the loop finds ctx done: return nil
ReturnOnDone ==
    /\ runPc = "running"
    /\ ctxDone
    /\ runPc' = SelectDone(ctxDone)
    /\ UNCHANGED <<loadVars, callVars, srcVars, cmdVars, prodVars, cfg, topicLog, fetchPos,
                   fetches, outputs, messageCount, decoded, stdout, stderr, ctxDone>>

NextRun ==
    \/ PollAndProcess
    \/ PollFetchError
    \/ PollInterrupted
    \/ Signal
    \/ ReturnOnDone

SpecRun == InitRun /\ [][NextRun]_vars

\* a topic of one partition with records and the others empty
SignalLogs ==
    {[q \in Partitions |-> IF q = 1 THEN log ELSE <<>>] :
        log \in {<<>>, <<[Key |-> "k1", Value |-> GoodPayload]>>,
                 <<[Key |-> "k1", Value |-> BadPayload],
                   [Key |-> "k1", Value |-> GoodPayload]>>}}

\* sessions of every configuration on these topics
InitRunFair ==
    /\ cfg \in RunConfigs
    /\ topicLog \in SignalLogs
    /\ RunStart

\* the loop goes on while the process runs: a return that is due is taken
SpecRunFair == InitRunFair /\ [][NextRun]_vars /\ WF_vars(ReturnOnDone)

-----------------------------------------------------------------------------
(* Calls of formatter.New(format).Format(msg) and of the offset switch of
   NewConsumer, on inputs drawn from small sets *)

\* strings as sequences of characters
Chars_timestamp == <<"t", "i", "m", "e", "s", "t", "a", "m", "p", ":">>
Chars_beginning == <<"b", "e", "g", "i", "n", "n", "i", "n", "g">>
Chars_stored == <<"s", "t", "o", "r", "e", "d">>

\* strings.HasPrefix(s, prefix)
HasPrefix(s, prefix) == Len(s) >= Len(prefix) /\ SubSeq(s, 1, Len(prefix)) = prefix

\* values of --offset
OffsetStrings ==
    {<<>>,
     <<"e", "n", "d">>,
     <<"b", "e", "g", "i", "n", "n", "i", "n", "g">>,
     <<"s", "t", "o", "r", "e", "d">>,
     <<"t", "i", "m", "e", "s", "t", "a", "m", "p", ":">>,
     <<"t", "i", "m", "e", "s", "t", "a", "m", "p", ":", "0">>,
     <<"t", "i", "m", "e", "s", "t", "a", "m", "p", ":", "1", "7", "0", "0", "0", "0", "0", "0", "0", "0", "0", "0", "0">>,
     <<"t", "i", "m", "e", "s", "t", "a", "m", "p", ":", "b", "e", "g", "i", "n", "n", "i", "n", "g">>,
     <<"B", "e", "g", "i", "n", "n", "i", "n", "g">>,
     <<"b", "e", "g", "i", "n", "n", "i", "n", "g", " ">>,
     <<"s", "t", "o", "r", "e", "d", "x">>,
     <<"t", "i", "m", "e", "s", "t", "a", "m", "p">>,
     <<"l", "a", "t", "e", "s", "t">>,
     <<"x", "t", "i", "m", "e", "s", "t", "a", "m", "p", ":", "5">>}

\* the switch of NewConsumer with the timestamp branch seeking by its value
ConsumeResetOffset_TimestampSeeks(offset) ==
    IF HasPrefix(offset, Chars_timestamp)
    THEN [reset |-> "AfterMilli", at |-> SubSeq(offset, Len(Chars_timestamp) + 1, Len(offset))]
    ELSE IF offset = Chars_beginning THEN [reset |-> "AtStart", at |-> <<>>]
    ELSE IF offset = Chars_stored THEN [reset |-> "unset", at |-> <<>>]
    ELSE [reset |-> "AtEnd", at |-> <<>>]

\* the switch on cfg.Offset of NewConsumer: the kgo.ConsumeResetOffset option
\* appended to opts ("unset": none is appended)
ConsumeResetOffset(offset) ==
    IF HasPrefix(offset, Chars_timestamp) THEN [reset |-> "AtEnd", at |-> <<>>]
    ELSE IF offset = Chars_beginning THEN [reset |-> "AtStart", at |-> <<>>]
    ELSE IF offset = Chars_stored THEN [reset |-> "unset", at |-> <<>>]
    ELSE [reset |-> "AtEnd", at |-> <<>>]

\* raw payloads of 0, 4, 49, 50 and 51 bytes
RawPayloads ==
    {<<>>, <<Item(1, "len", "u1")>>, <<Item(3, "len", Pad47)>>, <<Item(3, "len", Pad48)>>,
     <<Item(3, "len", Pad49)>>}

\* values of Message.Value: nil, and objects json.Unmarshal returned
MessageValues ==
    {[ValueNil |-> TRUE, Value |-> EmptyMap], [ValueNil |-> FALSE, Value |-> EmptyMap],
     [ValueNil |-> FALSE, Value |-> [k \in {"user_id"} |-> JStr("u1")]]}

\* the messages Format is called on
MessageUniverse ==
    {[Partition |-> 0, Offset |-> 0, Key |-> "k1", MessageType |-> t,
      ValueNil |-> v.ValueNil, Value |-> v.Value, Error |-> e, RawValue |-> raw] :
        t \in {"", "pkg.Msg"}, v \in MessageValues, e \in {"", ErrUnmarshal},
        raw \in RawPayloads}

InitFormat ==
    /\ fdSet = <<FileA>>
    /\ defaultType = "pkg.Msg"
    /\ fileIdx = Len(fdSet) + 1
    /\ LET d == loadDescriptorSet(fdSet)
       IN /\ messageTypes = d.messageTypes
          /\ registry = d.registry
    /\ loadPc = "ready"
    /\ loadErr = ErrNone
    /\ CallIdle
    /\ RunIdle
    /\ SrcIdle
    /\ CmdIdle
    /\ ProdIdle

\* formatter.New(format), and Format(msg) on the formatter when there is one
CallFormat ==
    /\ call = NoCall
    /\ \E format \in FormatNames \cup {"xml"}, msg \in MessageUniverse :
          LET f == New(format)
          IN call' = [op |-> "Format", format |-> format, msg |-> msg, newErr |-> f.err,
                      result |-> IF f.err = ErrNone THEN Format(f, msg) ELSE Returned(<<>>)]
    /\ UNCHANGED <<loadVars, runVars, srcVars, cmdVars, prodVars>>

\* the offset switch of NewConsumer
CallNewConsumer ==
    /\ call = NoCall
    /\ \E offset \in OffsetStrings :
          call' = [op |-> "NewConsumer", offset |-> offset,
                   result |-> ConsumeResetOffset(offset)]
    /\ UNCHANGED <<loadVars, runVars, srcVars, cmdVars, prodVars>>

NextFormat ==
    \/ CallFormat
    \/ CallNewConsumer
    \/ CallReturn

SpecFormat == InitFormat /\ [][NextFormat]_vars

-----------------------------------------------------------------------------
(* What a descriptor set declares, stated apart from the loader *)

RECURSIVE DeclaredIn(_)
\* the full names of a message and of every message nested in it
DeclaredIn(msg) ==
    {msg.fullName} \cup UNION {DeclaredIn(msg.nested[i]) : i \in DOMAIN msg.nested}

\* every message a file declares, at any depth
DeclaredNames(fd) == UNION {DeclaredIn(fd.messages[i]) : i \in DOMAIN fd.messages}

RECURSIVE ResolvedAt(_, _)
\* files[i] resolves at its turn: its content is accepted and each import is
\* the path of an earlier file that resolved
ResolvedAt(files, i) ==
    /\ files[i].valid
    /\ \A dep \in files[i].deps :
          \E k \in 1..(i - 1) : files[k].path = dep /\ ResolvedAt(files, k)

LoadFinished == loadPc \in {"ready", "failed"}

LoadFailed == loadPc = "failed"

\* files i < j of different paths, both built whatever the registry holds,
\* declare the same top-level name
DefinedTwice(i, j) ==
    /\ i < j
    /\ fdSet[i].path # fdSet[j].path
    /\ fdSet[i].valid /\ fdSet[i].deps = {}
    /\ fdSet[j].valid /\ fdSet[j].deps = {}
    /\ TopLevelNames(fdSet[i]) \cap TopLevelNames(fdSet[j]) # {}

\* the path of the last file of the set that declares top-level name n
LastDeclaring(n) ==
    LET idx == {i \in DOMAIN fdSet : n \in TopLevelNames(fdSet[i])}
        last == CHOOSE i \in idx : \A k \in idx : k <= i
    IN fdSet[last].path

-----------------------------------------------------------------------------
(* JSON documents against a message type, stated apart from the codec *)

IsZeroJson(jv) == jv = JNull \/ jv.v \in {"", "0"}

\* j without its members that are null or hold a zero value
StripDefaults(j) ==
    [k \in {x \in DOMAIN j : ~IsZeroJson(j[x])} |-> j[k]]

\* the field of desc that member key k of a valid document names
FieldFor(desc, k) == CHOOSE f \in FieldsOf(desc) : f.name = k \/ f.json = k

\* a valid document with each member under the proto name of its field
ProtoNamed(j, desc) ==
    [n \in {FieldFor(desc, k).name : k \in DOMAIN j} |->
        j[CHOOSE k \in DOMAIN j : FieldFor(desc, k).name = n]]

FitsKind(kind, jv) ==
    CASE kind = "string" -> jv.t = "str"
      [] kind = "int32" -> jv.t = "num"
      [] OTHER -> jv = JStr(TimeText)

\* j is valid for desc: each member names a field, no field is named twice,
\* each value that is not null fits the kind of its field
ValidFor(j, desc) ==
    /\ \A k \in DOMAIN j : \E f \in FieldsOf(desc) : f.name = k \/ f.json = k
    /\ \A k1, k2 \in DOMAIN j : k1 # k2 => FieldFor(desc, k1) # FieldFor(desc, k2)
    /\ \A k \in DOMAIN j : j[k] # JNull => FitsKind(FieldFor(desc, k).kind, j[k])

\* j under proto field names, without its null members and without the zero
\* values of fields that have no explicit presence
Canonical(j, desc) ==
    LET kept == {k \in DOMAIN j :
                   /\ j[k] # JNull
                   /\ (FieldFor(desc, k).presence \/ ~IsZeroJson(j[k]))}
        memberOf(n) == CHOOSE k \in kept : FieldFor(desc, k).name = n
    IN [n \in {FieldFor(desc, k).name : k \in kept} |-> j[memberOf(n)]]

\* data is not wire format for desc: an item with field number 0 or cut
\* short, or bytes that are not UTF-8 in a declared string field
InvalidFor(data, desc) ==
    \E i \in DOMAIN data :
       \/ data[i].num = 0
       \/ data[i].wt = "trunc"
       \/ /\ data[i].val = BadUtf8
          /\ data[i].wt = "len"
          /\ \E f \in FieldsOf(desc) : f.num = data[i].num /\ f.kind = "string"

-----------------------------------------------------------------------------
(* Claims on Decode and encodeMessage *)

C2_UnknownTypeFails ==
    /\ (call.op = "Decode" /\ ~HasKey(messageTypes, defaultType))
          => call.result = DecodeFailure(ErrUnknownType)
    /\ (call.op = "encodeMessage" /\ ~HasKey(messageTypes, call.type))
          => call.result = EncodeFailure(ErrTypeNotFound)

\* C2 (amended): with a non-empty type name that is no key of the registry,
\* Decode fails with the unknown-message-type error; with the empty type name
\* it fails with the message-type-required error; encodeMessage fails with the
\* type-not-found error for every name that is no key; none returns output.
C2_UnknownNonEmptyTypeFails ==
    /\ (call.op = "Decode" /\ ~HasKey(messageTypes, defaultType))
          => call.result =
               DecodeFailure(IF defaultType = "" THEN ErrTypeRequired ELSE ErrUnknownType)
    /\ (call.op = "encodeMessage" /\ ~HasKey(messageTypes, call.type))
          => call.result = EncodeFailure(ErrTypeNotFound)

\* C2 witness: Decode was called with well-formed bytes on a decoder
\* configured with a name the registry does not hold.
C2_Witness ==
    /\ call.op = "Decode"
    /\ defaultType = "pkg.Nope"
    /\ call.data = <<Item(1, "len", "u1")>>
    /\ call.result.err = ErrUnknownType

\* C6: bytes that are not wire format for the configured, registered type
\* make Decode return the unmarshal error with nil JSON and no type name.
C6_MalformedBytesRejected ==
    (/\ call.op = "Decode"
     /\ HasKey(messageTypes, defaultType)
     /\ InvalidFor(call.data, messageTypes[defaultType]))
    => call.result = DecodeFailure(ErrUnmarshal)

\* C6 witness: Decode met a malformed item after an item that set a field
\* of the configured type.
C6_Witness ==
    /\ call.op = "Decode"
    /\ defaultType = "pkg.Msg"
    /\ HasKey(messageTypes, defaultType)
    /\ call.data = <<Item(1, "len", "u1"), Item(1, "trunc", "")>>
    /\ call.result.jsonNil

\* C7: a Decode call returns either JSON, the configured type name and no
\* error, or nil JSON, the empty type name and an error.
C7_DecodeResultShapes ==
    call.op \in {"Decode", "roundtrip"} =>
       \/ /\ call.result.err = ErrNone
          /\ ~call.result.jsonNil
          /\ call.result.type = defaultType
       \/ /\ call.result.err # ErrNone
          /\ call.result.jsonNil
          /\ call.result.json = EmptyMap
          /\ call.result.type = ""

\* C7 witness: a Decode call succeeded with a populated field.
C7_Witness ==
    /\ call.op = "Decode"
    /\ call.result.err = ErrNone
    /\ call.result.type = "pkg.Msg"
    /\ DOMAIN call.result.json # {}

\* the registry NewDecoder built from the set
Constructed == loadDescriptorSet(fdSet)

\* C16: no call on a constructed decoder changes an entry of the registry,
\* the registered files or the configured type, whether it succeeds or
\* fails; and what a Decode call returns is what Decode gives for its bytes
\* on the registry as constructed, whatever calls were made before it.
C16_ReadOnlyAfterConstruction ==
    /\ [][/\ messageTypes' = messageTypes
          /\ registry' = registry
          /\ defaultType' = defaultType]_vars
    /\ [](/\ messageTypes = Constructed.messageTypes
          /\ registry = Constructed.registry
          /\ call.op = "Decode" =>
                call.result = Decode(Constructed.messageTypes, defaultType, call.data))

\* C16 witness: a Decode call failed for an unknown type name and the
\* registry is as constructed, the missed name not among its keys.
C16_Witness ==
    /\ call.op = "Decode"
    /\ defaultType = "pkg.Nope"
    /\ call.result.err = ErrUnknownType
    /\ messageTypes = Constructed.messageTypes
    /\ ~HasKey(messageTypes, "pkg.Nope")

\* C17: on a decoder configured with the empty type name every Decode call
\* returns the message-type-required error, nil JSON and no type name, for
\* well-formed and malformed bytes alike and whatever the registry holds.
C17_EmptyTypeRequired ==
    (call.op = "Decode" /\ defaultType = "") =>
       call.result = DecodeFailure(ErrTypeRequired)

\* C17 witness: with the empty type name and a registry that holds types,
\* Decode answered malformed bytes with the message-type-required error.
C17_Witness ==
    /\ call.op = "Decode"
    /\ defaultType = ""
    /\ MessageTypeCount(messageTypes) > 0
    /\ \E i \in DOMAIN call.data : Malformed(call.data[i])
    /\ call.result.err = ErrTypeRequired
    /\ call.result.jsonNil

-----------------------------------------------------------------------------
(* Claims on the consume session *)

PassesFilter(record) == cfg.KeyFilter = "" \/ record.Key = cfg.KeyFilter

\* the records of a fetch that pass the key filter, partition after partition
RECURSIVE Passing(_)
Passing(parts) ==
    IF parts = <<>> THEN <<>>
    ELSE SelectSeq(Head(parts).Records, PassesFilter) \o Passing(Tail(parts))

\* the one output a record is due: the error text with the raw payload when
\* its value does not decode, the decoded value otherwise
OutputDue(record) ==
    LET res == Decode(messageTypes, defaultType, record.Value)
    IN IF res.err # ErrNone
       THEN [Partition |-> record.Partition, Offset |-> record.Offset, Key |-> record.Key,
             MessageType |-> "", ValueNil |-> TRUE, Value |-> EmptyMap,
             Error |-> res.err, RawValue |-> record.Value]
       ELSE [Partition |-> record.Partition, Offset |-> record.Offset, Key |-> record.Key,
             MessageType |-> defaultType, ValueNil |-> FALSE, Value |-> res.json,
             Error |-> "", RawValue |-> <<>>]

\* the records of the topic that pass the key filter
PassingInTopic ==
    {<<q, i>> \in Partitions \X (1..MaxRecords) :
        i <= Len(topicLog[q]) /\ PassesFilter(topicLog[q][i])}

\* C3 (as claimed): a turn of the loop whose fetch has no error appends,
\* when no count limit is set, exactly one output per record of the fetch
\* that passes the filter, in order, records that fail to decode included
\* (as error text and raw payload); the turn ends the session only when the
\* count is reached or when the fetch is empty and --follow is off, and it
\* never ends the process.
C3_DecodeFailureKeepsSession ==
    [][(runPc = "running" /\ ~ctxDone /\ ~ctxDone' /\ ~fetches'.err)
       => /\ runPc' # "panicked"
          /\ cfg.Count = 0 =>
               /\ Len(outputs') = Len(outputs) + Len(Passing(fetches'.parts))
               /\ \A n \in 1..Len(Passing(fetches'.parts)) :
                     outputs'[Len(outputs) + n] = OutputDue(Passing(fetches'.parts)[n])
          /\ runPc' = "returned" =>
               \/ cfg.Count > 0 /\ messageCount' >= cfg.Count
               \/ ~cfg.Follow /\ NumRecords(fetches'.parts) = 0]_vars

\* C3 witness: a record that failed to decode was output with its error and
\* raw payload, a later record of the same partition was output after it,
\* and the session is still running.
C3_Witness ==
    /\ runPc = "running"
    /\ Len(outputs) >= 2
    /\ outputs[1].Error = ErrUnmarshal
    /\ outputs[1].RawValue = BadPayload
    /\ outputs[2].Partition = outputs[1].Partition
    /\ outputs[2].Error = ""

\* C4 (as claimed): with a count limit N > 0 on a topic that holds at least N
\* records passing the filter, at most N records are output, and the session
\* has ended once N are.
C4_CountLimitExact ==
    (cfg.Count > 0 /\ Cardinality(PassingInTopic) >= cfg.Count)
    => /\ Len(outputs) <= cfg.Count
       /\ Len(outputs) >= cfg.Count => runPc = "returned"

\* C13: with a key filter set, every record decoded and every record output
\* has exactly the filter as its key; the records passed to Decode are the
\* records output, and messageCount counts them and nothing else; with no
\* filter and no count limit a turn of the loop whose fetch has no error
\* outputs every record of the fetch (a turn in which Format panics aside).
C13_KeyFilterExact ==
    /\ [](/\ cfg.KeyFilter # "" =>
               /\ \A n \in DOMAIN outputs : outputs[n].Key = cfg.KeyFilter
               /\ \A n \in DOMAIN decoded : decoded[n].Key = cfg.KeyFilter
          /\ Len(decoded) = Len(outputs)
          /\ messageCount <= Len(outputs)
          /\ runPc # "panicked" => messageCount = Len(outputs)
          /\ \A n \in DOMAIN outputs :
                /\ outputs[n].Partition = decoded[n].Partition
                /\ outputs[n].Offset = decoded[n].Offset)
    /\ [][(/\ runPc = "running" /\ ~ctxDone /\ ~ctxDone' /\ ~fetches'.err
           /\ runPc' # "panicked"
           /\ cfg.KeyFilter = "" /\ cfg.Count = 0)
          => Len(outputs') = Len(outputs) + NumRecords(fetches'.parts)]_vars

\* C13 witness: with the filter k1 a partition handed out a k2 record and
\* then a k1 record; only the second was decoded and output, as message 1.
C13_Witness ==
    /\ cfg.KeyFilter = "k1"
    /\ \E q \in Partitions :
          /\ Len(topicLog[q]) = 2
          /\ topicLog[q][1].Key = "k2"
          /\ topicLog[q][2].Key = "k1"
          /\ fetchPos[q] = 2
          /\ Len(outputs) = 1
          /\ outputs[1].Partition = q
          /\ outputs[1].Offset = 1
          /\ Len(decoded) = 1
          /\ messageCount = 1

-----------------------------------------------------------------------------
(* Claims on the produce session *)

\* the loop body has run on input line n
Handled(n) == n \in DOMAIN lines /\ n < lineIdx

\* the positions of the reports about input line n
ReportsOn(n) ==
    {i \in DOMAIN reports :
        reports[i].line = n /\ reports[i].what \notin {RepReadError, RepSummary}}

\* the one report about a handled line that is not blank
ReportOn(n) == reports[CHOOSE i \in ReportsOn(n) : TRUE]

\* the records whose send was acknowledged
Acked == {i \in DOMAIN sent : sent[i].acked}

SentFor(n) == {i \in DOMAIN sent : sent[i].line = n}

ScanFailed == \E i \in DOMAIN reports : reports[i].what = RepReadError

\* every handled line that is not blank has one report, and the reports
\* follow the order of the lines
EveryLineReported ==
    /\ \A n \in DOMAIN lines :
          Cardinality(ReportsOn(n)) = IF Handled(n) /\ lines[n] # BlankLine THEN 1 ELSE 0
    /\ \A i, j \in DOMAIN reports : i < j => reports[i].line <= reports[j].line

\* C12 (as claimed): every line is handled whatever happened to the lines
\* before it, and the session ends with the count of acknowledged sends
\* reported and exit status 0.
C12_ProduceSessionExitsZero ==
    /\ EveryLineReported
    /\ producedCount = Cardinality(Acked)
    /\ prodPc = "done" =>
          /\ \A n \in DOMAIN lines : Handled(n)
          /\ exitStatus = "0"
          /\ reports[Len(reports)].what = RepSummary
          /\ reports[Len(reports)].count = Cardinality(Acked)

\* C12 (amended): each line the scanner delivers that is not blank gets one
\* report, in order: invalid JSON, failed to encode, failed to produce, or
\* produced; only an acknowledged send is counted; a session whose input is
\* read to its end handles every line, reports the count of acknowledged
\* sends and exits with status 0, also when the count is 0; a session whose
\* scanner fails handles no further line, reports no count and exits with
\* status 1.
C12_ProduceSessionRecovers ==
    /\ EveryLineReported
    /\ \A n \in DOMAIN lines : (Handled(n) /\ lines[n] # BlankLine) =>
          /\ ReportOn(n).what = RepInvalidJSON <=> ~jsonValid(lines[n])
          /\ ReportOn(n).what = RepProduceFailed <=>
                (\E i \in SentFor(n) : ~sent[i].acked)
          /\ ReportOn(n).what = RepProduced <=> (\E i \in SentFor(n) : sent[i].acked)
          /\ ReportOn(n).what = RepEncodeFailed <=>
                (jsonValid(lines[n]) /\ SentFor(n) = {})
          /\ Cardinality(SentFor(n)) <= 1
    /\ producedCount = Cardinality(Acked)
    /\ (prodPc = "done" /\ ~ScanFailed) =>
          /\ \A n \in DOMAIN lines : Handled(n)
          /\ exitStatus = "0"
          /\ reports[Len(reports)] = Report(Len(lines) + 1, RepSummary, "", Cardinality(Acked))
    /\ ScanFailed =>
          /\ prodPc = "done"
          /\ exitStatus = "1"
          /\ reports[Len(reports)].what = RepReadError
          /\ \A i \in DOMAIN reports : reports[i].what # RepSummary
    /\ prodPc = "scanning" => exitStatus = Running

\* C12 witness: a session of an invalid line, a line whose send failed and a
\* line whose send was acknowledged ended with count 1 and status 0.
C12_Witness ==
    /\ prodPc = "done"
    /\ exitStatus = "0"
    /\ lines = <<NotJSON, DocGood, DocGood>>
    /\ Len(sent) = 2
    /\ ~sent[1].acked /\ sent[2].acked
    /\ reports[1].what = RepInvalidJSON
    /\ reports[2].what = RepProduceFailed
    /\ reports[3].what = RepProduced
    /\ reports[4] = Report(4, RepSummary, "", 1)

\* C12 witness of the empty count: a session whose only line is invalid
\* ended with count 0 and status 0.
C12_WitnessZero ==
    /\ prodPc = "done"
    /\ exitStatus = "0"
    /\ lines = <<NotJSON>>
    /\ reports = <<Report(1, RepInvalidJSON, "", 0), Report(2, RepSummary, "", 0)>>

\* a JSON object with a member that no field of desc matches, by proto name
\* or by JSON name
HasUnmatchedMember(doc, desc) ==
    /\ doc \notin {BlankLine, NotJSON, JsonScalar}
    /\ \E k \in DOMAIN doc : \A f \in FieldsOf(desc) : f.name # k /\ f.json # k

EncodeCallsFor(n) == {i \in DOMAIN encodeCalls : encodeCalls[i] = n}

\* C14: for a handled line whose JSON object has a member that no field of
\* the configured, registered type matches, encodeMessage returns the
\* JSON-to-proto error and nil bytes, whatever the value of the member and
\* whatever the other members; the line is reported as failed to encode and
\* no record is sent for it.
C14_UnknownFieldRejected ==
    \A n \in DOMAIN lines :
       (/\ Handled(n)
        /\ HasKey(messageTypes, defaultType)
        /\ HasUnmatchedMember(lines[n], messageTypes[defaultType]))
       => /\ encodeMessage(messageTypes, defaultType, lines[n]) =
                {EncodeFailure(ErrJSONToProto)}
          /\ ReportsOn(n) # {}
          /\ ReportOn(n) = Report(n, RepEncodeFailed, ErrJSONToProto, 0)
          /\ SentFor(n) = {}

\* C14 witness: a line with a matching and an unmatched member was refused,
\* nothing sent for it, and the next line was sent.
C14_Witness ==
    /\ defaultType = "pkg.Msg"
    /\ Len(lines) >= 2
    /\ lines[1] = DocUnknown
    /\ lines[2] = DocGood
    /\ lineIdx = 3
    /\ reports[1] = Report(1, RepEncodeFailed, ErrJSONToProto, 0)
    /\ Len(sent) = 1
    /\ sent[1].line = 2

\* valid JSON that the configured type does not take: a scalar, an unmatched
\* member, a value of the wrong kind, or a type that is not registered
WrongShape(jsonData) ==
    /\ jsonValid(jsonData)
    /\ jsonData # BlankLine
    /\ \/ ~HasKey(messageTypes, defaultType)
       \/ jsonData = JsonScalar
       \/ ~ValidFor(jsonData, messageTypes[defaultType])

\* C15: a handled line that is not valid JSON is reported as invalid JSON
\* and is not passed to encodeMessage, whether the configured type is
\* registered or not; every other handled line that is not blank is passed
\* to encodeMessage once; and valid JSON of the wrong shape is reported as
\* failed to encode, with the type-not-found error when the type is not
\* registered and the JSON-to-proto error otherwise.
C15_ValidationBeforeEncode ==
    \A n \in DOMAIN lines :
       Handled(n) =>
          /\ ~jsonValid(lines[n]) =>
                /\ ReportsOn(n) # {}
                /\ ReportOn(n) = Report(n, RepInvalidJSON, "", 0)
                /\ EncodeCallsFor(n) = {}
                /\ SentFor(n) = {}
          /\ Cardinality(EncodeCallsFor(n)) =
                IF jsonValid(lines[n]) /\ lines[n] # BlankLine THEN 1 ELSE 0
          /\ WrongShape(lines[n]) =>
                /\ ReportsOn(n) # {}
                /\ ReportOn(n) =
                      Report(n, RepEncodeFailed,
                             IF HasKey(messageTypes, defaultType)
                             THEN ErrJSONToProto ELSE ErrTypeNotFound, 0)

\* C15 witness: with a type that is not registered, an invalid line was
\* reported as invalid JSON without a call of encodeMessage, and a valid
\* line after it failed in encodeMessage with the type-not-found error.
C15_Witness ==
    /\ defaultType = "pkg.Nope"
    /\ Len(lines) >= 2
    /\ lines[1] = NotJSON
    /\ lines[2] = DocGood
    /\ lineIdx = 3
    /\ reports[1] = Report(1, RepInvalidJSON, "", 0)
    /\ reports[2] = Report(2, RepEncodeFailed, ErrTypeNotFound, 0)
    /\ encodeCalls = <<2>>

-----------------------------------------------------------------------------
(* Claims on the load *)

\* C5 (as claimed): once a load is over whose set holds a file defining a
\* name and a later file of another path defining it again, the load has
\* succeeded and the one entry of that name is the one built from the last
\* file declaring it.
C5_DuplicateNameLastWins ==
    (LoadFinished /\ \E i, j \in DOMAIN fdSet : DefinedTwice(i, j))
    => /\ loadPc = "ready"
       /\ \A i, j \in DOMAIN fdSet :
             DefinedTwice(i, j) =>
               \A n \in TopLevelNames(fdSet[i]) \cap TopLevelNames(fdSet[j]) :
                   /\ HasKey(messageTypes, n)
                   /\ messageTypes[n].file = LastDeclaring(n)

\* C8: after a successful load the keys of the registry are exactly the full
\* names of the messages declared, at any depth, in the files that resolved,
\* and each key holds the descriptor of that name.
C8_NestedTypesIndexed ==
    loadPc = "ready" =>
       /\ DOMAIN messageTypes =
             UNION {DeclaredNames(fdSet[i]) :
                      i \in {k \in DOMAIN fdSet : ResolvedAt(fdSet, k)}}
       /\ \A n \in DOMAIN messageTypes : messageTypes[n].fullName = n

\* C8 witness: a decoder was returned whose registry holds a message nested
\* two levels deep together with its parents.
C8_Witness ==
    /\ loadPc = "ready"
    /\ {"pkg.Outer", "pkg.Outer.Inner", "pkg.Outer.Inner.Deep"} \subseteq DOMAIN messageTypes

\* C9: a load whose loop ran over every file and left zero entries fails
\* with the no-message-types error, and a returned decoder always has at
\* least one entry.
C9_EmptyRegistryRejected ==
    /\ (LoadFinished /\ fileIdx > Len(fdSet) /\ MessageTypeCount(messageTypes) = 0)
          => (loadPc = "failed" /\ loadErr = ErrNoTypes)
    /\ loadPc = "ready" => MessageTypeCount(messageTypes) > 0

\* C9 witness: a set whose files were all skipped or declare nothing was
\* rejected.
C9_Witness ==
    /\ loadPc = "failed"
    /\ loadErr = ErrNoTypes
    /\ \E i \in DOMAIN fdSet : fdSet[i].messages # <<>>

\* C10 (as claimed): once a load is over in which a file was skipped because
\* it resolved neither way, and another file contributed a message type, the
\* load has succeeded.
C10_SkipNeverFailsLoad ==
    (/\ LoadFinished
     /\ \E i \in DOMAIN fdSet : i < fileIdx /\ ~ResolvedAt(fdSet, i)
     /\ MessageTypeCount(messageTypes) > 0)
    => (loadPc = "ready" /\ loadErr = ErrNone)

\* the loop has taken up file i: it went past it, or failed at it
Reached(i) == i < fileIdx \/ (LoadFailed /\ loadErr = ErrRegister /\ i = fileIdx)

\* C20 (first part): the file registry never holds two files of one path,
\* and a load that failed to register did so at a file whose path was not
\* registered.
C20_NoDuplicatePath ==
    /\ \A f, g \in registry : f.path = g.path => f = g
    /\ (LoadFailed /\ loadErr = ErrRegister) =>
          ~FindFileByPath(registry, fdSet[fileIdx].path)

\* C20 (as claimed): the file registry never holds two files of one path; a
\* load does not fail at a file whose path is registered; and every file
\* the loop has taken up that resolved is registered under its path.
C20_RegisteredExactlyOnce ==
    /\ C20_NoDuplicatePath
    /\ \A i \in DOMAIN fdSet :
          (Reached(i) /\ ResolvedAt(fdSet, i)) =>
             Cardinality({f \in registry : f.path = fdSet[i].path}) = 1

-----------------------------------------------------------------------------
(* Claims on the schema source *)

\* the external tool was started
ToolStarted == \E i \in DOMAIN effects : effects[i] = OpBuf

\* some file was read
FileRead == \E i \in DOMAIN effects : effects[i] \in {OpRead, OpReadImage}

\* C11: a failed load leaves an error and no decoder: no call is ever made on
\* it and the command ends with status 1, never 0; a call is only made on a
\* decoder whose load ended without error, with the registry the whole set
\* gives; a path that does not exist fails with the not-found error after
\* the stat alone, no file read and no tool started.
C11_LoadFailureIsFatal ==
    /\ LoadFailed => (loadErr # ErrNone /\ call = NoCall /\ exitStatus \in {Running, "1"})
    /\ exitStatus = "1" => LoadFailed
    /\ call # NoCall =>
          /\ loadPc = "ready"
          /\ loadErr = ErrNone
          /\ messageTypes = loadDescriptorSet(fdSet).messageTypes
    /\ (~protoPath.exists /\ loadPc # "start") =>
          /\ LoadFailed
          /\ loadErr = ErrNotFound
          /\ effects = <<OpStat>>
          /\ ~FileRead /\ ~ToolStarted

\* C11 witness: the command exited with status 1 on a path that does not
\* exist.
C11_Witness ==
    /\ ~protoPath.exists
    /\ loadErr = ErrNotFound
    /\ exitStatus = "1"

\* C11 witness of the other failures: a load that failed after a file had
\* contributed entries ended the command with status 1.
C11_WitnessPartial ==
    /\ LoadFailed
    /\ loadErr = ErrRegister
    /\ MessageTypeCount(messageTypes) > 0
    /\ exitStatus = "1"

\* the loader NewDecoder chose
BlobChosen == \E i \in DOMAIN effects : effects[i] = OpLoadBlob
BufChosen == \E i \in DOMAIN effects : effects[i] = OpLoadBuf

\* the bytes of the path parse as a descriptor set or as a file descriptor
ContentParses ==
    protoPath.readable /\ (protoPath.content.set.ok \/ protoPath.content.single.ok)

\* C18: for a path that exists exactly one loader is chosen: the blob loader
\* for .desc, .pb and .protoset, right after the stat; the buf loader for
\* .yaml and .yml, the path's bytes never read; for any other extension or
\* none the blob loader exactly when the bytes parse as a descriptor set or
\* as a single file descriptor, the buf loader otherwise.
C18_SourceKindDecision ==
    (protoPath.exists /\ loadPc # "start") =>
       /\ BlobChosen # BufChosen
       /\ protoPath.ext \in {".desc", ".pb", ".protoset"} =>
             (BlobChosen /\ effects[2] = OpLoadBlob)
       /\ protoPath.ext \in {".yaml", ".yml"} =>
             /\ BufChosen /\ effects[2] = OpLoadBuf
             /\ \A i \in DOMAIN effects : effects[i] # OpRead
             /\ ToolStarted <=> protoPath.tool.mkdir
       /\ protoPath.ext \notin {".desc", ".pb", ".protoset", ".yaml", ".yml"} =>
             /\ BlobChosen <=> ContentParses
             /\ BufChosen <=> ~ContentParses

\* C18 witness: a path without extension whose bytes are a single file
\* descriptor was loaded as a blob into a decoder, no tool started.
C18_Witness ==
    /\ protoPath.exists
    /\ protoPath.ext = ""
    /\ protoPath.content = BlobFileA
    /\ loadPc = "ready"
    /\ BlobChosen
    /\ ~ToolStarted

\* C18 witness of the other side: a path of another extension whose bytes
\* parse neither way was compiled with the tool into a decoder.
C18_WitnessBuf ==
    /\ protoPath.exists
    /\ protoPath.ext = ".bin"
    /\ protoPath.content = BlobGarbage
    /\ loadPc = "ready"
    /\ ToolStarted

\* the operations of the blob loader, from its call on
BlobOps(ops) ==
    SubSeq(ops, CHOOSE i \in DOMAIN ops : ops[i] = OpLoadBlob, Len(ops))

\* C19: when the blob loader has read the bytes, it parses them as a set
\* first and as a single file descriptor only when that failed; the set
\* parsed gives the files to load, else the single descriptor is the one
\* file to load; when both parses fail the load fails with the unmarshal
\* error and no entry or file is registered; the blob loader never starts
\* the tool.
C19_BlobParseOrder ==
    (BlobChosen /\ loadPc # "start") =>
       /\ ~ToolStarted /\ ~BufChosen
       /\ protoPath.readable =>
             /\ protoPath.content.set.ok =>
                   /\ BlobOps(effects) = <<OpLoadBlob, OpRead, OpUnmarshalSet>>
                   /\ fdSet = protoPath.content.set.files
                   /\ loadErr # ErrUnmarshalDescriptor
             /\ (~protoPath.content.set.ok /\ protoPath.content.single.ok) =>
                   /\ BlobOps(effects) =
                         <<OpLoadBlob, OpRead, OpUnmarshalSet, OpUnmarshalFile>>
                   /\ fdSet = <<protoPath.content.single.file>>
                   /\ loadErr # ErrUnmarshalDescriptor
             /\ (~protoPath.content.set.ok /\ ~protoPath.content.single.ok) =>
                   /\ BlobOps(effects) =
                         <<OpLoadBlob, OpRead, OpUnmarshalSet, OpUnmarshalFile>>
                   /\ LoadFailed
                   /\ loadErr = ErrUnmarshalDescriptor
                   /\ messageTypes = EmptyMap
                   /\ registry = {}

\* C19 witness: a .desc file holding a single file descriptor was loaded as
\* a one-element set into a decoder.
C19_Witness ==
    /\ protoPath.ext = ".desc"
    /\ protoPath.content = BlobFileA
    /\ loadPc = "ready"
    /\ fdSet = <<FileA>>
    /\ HasKey(messageTypes, "pkg.Msg")

\* C19 witness of the failure: a .desc file whose bytes parse neither way
\* failed the load with the unmarshal error.
C19_WitnessNeither ==
    /\ protoPath.ext = ".desc"
    /\ protoPath.content = BlobGarbage
    /\ protoPath.readable
    /\ loadErr = ErrUnmarshalDescriptor
    /\ exitStatus = "1"

-----------------------------------------------------------------------------
(* Claims on the temporary directory of a load through the buf tool *)

\* os.MkdirAll(tempDir) succeeded
TempDirCreated == BufChosen /\ protoPath.tool.mkdir

\* the positions of the log at which the directory was removed
Removals == {i \in DOMAIN effects : effects[i] = OpRemoveAll}

\* NewDecoder has returned
LoadReturned == loadPc \in {"ready", "failed"}

\* C21: once NewDecoder has returned from a load through the buf tool that
\* created the temporary directory, the directory has been removed, exactly
\* once and as the last operation of the load, whatever the exit path: build
\* failure, unreadable image, unparsable image, a file that does not
\* register, no message types, success. While the load still runs the
\* directory has not been removed, and a load that did not create it removes
\* nothing.
C21_TempDirRemovedOnEveryPath ==
    /\ (TempDirCreated /\ LoadReturned) =>
          /\ Cardinality(Removals) = 1
          /\ effects[Len(effects)] = OpRemoveAll
          /\ \E i \in DOMAIN effects : effects[i] = OpMkdir /\ i < Len(effects)
    /\ (TempDirCreated /\ LoadReturned) =>
          loadErr \in {ErrBufBuild, ErrReadImage, ErrUnmarshalDescriptor, ErrRegister,
                       ErrNoTypes, ErrNone}
    /\ ~LoadReturned => Removals = {}
    /\ ~TempDirCreated => Removals = {}

\* C21 witness: the tool built an image, the load succeeded, and the
\* directory was removed after the image had been read and parsed.
C21_Witness ==
    /\ TempDirCreated
    /\ loadPc = "ready"
    /\ effects = <<OpStat, OpLoadBuf, OpStat, OpMkdir, OpBuf, OpReadImage, OpUnmarshalSet,
                   OpRemoveAll>>

\* C21 witness: the build failed and the directory was removed.
C21_WitnessBuildFails ==
    /\ TempDirCreated
    /\ loadErr = ErrBufBuild
    /\ effects[Len(effects)] = OpRemoveAll

\* C21 witness: the image could not be read and the directory was removed.
C21_WitnessUnreadable ==
    /\ TempDirCreated
    /\ loadErr = ErrReadImage
    /\ effects[Len(effects)] = OpRemoveAll

\* C21 witness: the image did not parse and the directory was removed.
C21_WitnessUnparsable ==
    /\ TempDirCreated
    /\ loadErr = ErrUnmarshalDescriptor
    /\ effects[Len(effects)] = OpRemoveAll

\* C21 witness: the image held no message type and the directory was removed.
C21_WitnessNoTypes ==
    /\ TempDirCreated
    /\ loadErr = ErrNoTypes
    /\ effects[Len(effects)] = OpRemoveAll

-----------------------------------------------------------------------------
(* Claims on two loads through the buf tool at the same time *)

\* the process has left os.ReadFile of the image
HasRead(p) == procs[p].pc \in {"return", "done"} /\ procs[p].err # ErrBufBuild

\* C30 (as claimed): a process whose own build succeeds in a run with
\* another process reads the image its own build wrote: never the image of
\* the other, and never a directory the other has removed.
C30_LoadsDoNotInterfere ==
    \A p \in Procs :
        procs[p].build = "builds" =>
            /\ procs[p].err = ErrNone
            /\ HasRead(p) => procs[p].got = p

-----------------------------------------------------------------------------
(* Claims on the formatters and on the offset switch *)

\* a call of Format on a formatter that New returned
FormatCalled == call.op = "Format" /\ call.newErr = ErrNone

JSONCalled == FormatCalled /\ call.format \in {"json", "json-compact"}

\* the value of a lowercase hex digit
DigitValue(c) == CHOOSE v \in 0..15 : HexDigits[v + 1] = c

\* h is the lowercase hex text of the whole of bytes
IsLowerHexOf(h, bytes) ==
    /\ Len(h) = 2 * Len(bytes)
    /\ \A i \in DOMAIN h : \E v \in 0..15 : HexDigits[v + 1] = h[i]
    /\ \A i \in DOMAIN bytes :
          bytes[i] = 16 * DigitValue(h[2 * i - 1]) + DigitValue(h[2 * i])

\* C22: the JSON formatter returns without error having written one object;
\* with a non-empty Error the object has "error" (the text) and
\* "raw_value_hex" (the lowercase hex of the whole raw payload) and no
\* "value"; with an empty Error it has "value" and neither of the two;
\* "message_type" is a member exactly when MessageType is non-empty.
C22_JSONShapes ==
    JSONCalled =>
        /\ ~call.result.panic
        /\ call.result.err = ErrNone
        /\ Len(call.result.stdout) = 1
        /\ LET obj == call.result.stdout[1].text
               msg == call.msg
           IN /\ msg.Error # "" =>
                    /\ {"error", "raw_value_hex"} \subseteq DOMAIN obj
                    /\ "value" \notin DOMAIN obj
                    /\ obj["error"] = msg.Error
                    /\ IsLowerHexOf(obj["raw_value_hex"], WireBytes(msg.RawValue))
              /\ msg.Error = "" =>
                    /\ "value" \in DOMAIN obj
                    /\ "error" \notin DOMAIN obj
                    /\ "raw_value_hex" \notin DOMAIN obj
                    /\ obj["value"] = ValueOf(msg)
              /\ "message_type" \in DOMAIN obj <=> msg.MessageType # ""
              /\ msg.MessageType # "" => obj["message_type"] = msg.MessageType

\* C22 witness: the JSON formatter rendered an error message with a payload
\* of 51 bytes, all 102 hex characters of it, and no message type.
C22_Witness ==
    /\ JSONCalled
    /\ call.msg.Error = ErrUnmarshal
    /\ call.msg.MessageType = ""
    /\ Len(WireBytes(call.msg.RawValue)) = 51
    /\ Len(call.result.stdout[1].text["raw_value_hex"]) = 102
    /\ DOMAIN call.result.stdout[1].text =
          {"partition", "offset", "key", "error", "raw_value_hex"}

\* C22 witness: the JSON formatter rendered a decoded message.
C22_WitnessValue ==
    /\ JSONCalled
    /\ call.msg.Error = ""
    /\ call.msg.MessageType = "pkg.Msg"
    /\ DOMAIN call.result.stdout[1].text =
          {"partition", "offset", "key", "message_type", "value"}

C25_WitnessStored ==
    /\ call.op = "NewConsumer"
    /\ call.offset = Chars_stored
    /\ call.result.reset = "unset"

\* C26 (as claimed): Format on a message that carries an error returns
\* without a panic in each of the five formats, whatever the length of the
\* raw payload.
C26_FormatNeverPanics ==
    (FormatCalled /\ call.msg.Error # "") =>
        /\ ~call.result.panic
        /\ call.result.err = ErrNone

-----------------------------------------------------------------------------
(* Claims on the streams, the end of the loop and the signal *)

\* what Format writes for the n-th Message passed to it
Rendering(n) == Format(New(cfg.OutputFormat), outputs[n]).stdout

\* what Format writes for the first n Messages, one after the other
RECURSIVE Renderings(_)
Renderings(n) == IF n = 0 THEN <<>> ELSE Renderings(n - 1) \o Rendering(n)

\* the Message is that of a record the client has handed out
OfConsumedRecord(msg) ==
    /\ msg.Partition \in Partitions
    /\ msg.Offset < fetchPos[msg.Partition]
    /\ msg.Key = topicLog[msg.Partition][msg.Offset + 1].Key

\* the lines of the log that are `line`
CountOf(log, line) == Len(SelectSeq(log, LAMBDA l : l = line))

\* C23: standard output holds the renderings of the Messages passed to
\* Format, in order, and nothing else, each Message that of a consumed
\* record; standard error starts with the status lines and holds otherwise
\* only fetch errors, decode diagnostics (one per failed record when
\* verbose, none otherwise), the shutdown line and formatter failures.
C23_StdoutOnlyRenderings ==
    runPc # "idle" =>
        /\ stdout = Renderings(Len(outputs))
        /\ \A n \in DOMAIN outputs : OfConsumedRecord(outputs[n])
        /\ Len(stderr) >= Len(StatusLines(cfg))
        /\ SubSeq(stderr, 1, Len(StatusLines(cfg))) = StatusLines(cfg)
        /\ \A i \in DOMAIN stderr :
              i > Len(StatusLines(cfg)) =>
                 stderr[i] \in {LogFetchError, LogDecodeFailed, LogShuttingDown,
                                LogFormatFailed}
        /\ CountOf(stderr, LogDecodeFailed) =
              (IF cfg.Verbose
               THEN Cardinality({n \in DOMAIN outputs : outputs[n].Error # ""}) ELSE 0)

\* C23 witness: a verbose session wrote a decode diagnostic and a fetch
\* error to standard error, and the renderings of an error record and of a
\* decoded record to standard output.
C23_Witness ==
    /\ cfg.Verbose
    /\ cfg.OutputFormat = "json"
    /\ CountOf(stderr, LogDecodeFailed) = 1
    /\ CountOf(stderr, LogFetchError) = 1
    /\ Len(outputs) = 2
    /\ outputs[1].Error # ""
    /\ Len(stdout) = 2
    /\ stdout[1].text["error"] = ErrUnmarshal

\* C24: a turn of the loop whose fetch has no error ends the loop exactly
\* when the count limit is set and reached, or --follow is off and the fetch
\* held no record at all: not when it held records that the key filter
\* skipped, and never by an empty fetch when --follow is on.
C24_LoopEndConditions ==
    [][(runPc = "running" /\ ~ctxDone /\ ~ctxDone' /\ ~fetches'.err /\ runPc' # "panicked")
       => (runPc' = "returned"
           <=> \/ cfg.Count > 0 /\ messageCount' >= cfg.Count
               \/ ~cfg.Follow /\ NumRecords(fetches'.parts) = 0)]_vars

\* C24 witness: without --follow a poll returned records that the key filter
\* skipped, nothing was output, and the loop goes on.
C24_Witness ==
    /\ ~cfg.Follow
    /\ cfg.KeyFilter = "k1"
    /\ ~fetches.err
    /\ NumRecords(fetches.parts) > 0
    /\ Passing(fetches.parts) = <<>>
    /\ outputs = <<>>
    /\ runPc = "running"

\* C24 witness: with --follow the count was reached and the loop ended.
C24_WitnessFollowCount ==
    /\ cfg.Follow
    /\ cfg.Count > 0
    /\ messageCount >= cfg.Count
    /\ ~ctxDone
    /\ runPc = "returned"

\* C24 witness: with --follow, after records were output, a poll returned
\* nothing and the loop goes on.
C24_WitnessFollowEmpty ==
    /\ cfg.Follow
    /\ Len(outputs) > 0
    /\ Len(fetches.parts) = NumPartitions
    /\ fetchPos = [q \in Partitions |-> Len(topicLog[q])]
    /\ ~fetches.err
    /\ NumRecords(fetches.parts) = 0
    /\ runPc = "running"

\* C27 (as claimed): every Message passed to Format is counted, by one: the
\* counter equals the number of formatter calls, which equals the number of
\* records decoded; each Message is a value record (type and value, no
\* error) or an error record (error and raw payload, no type) according to
\* whether its record decodes; and the Messages of one partition are in
\* offset order.
C27_OneCallOneCount ==
    /\ messageCount = Len(outputs)
    /\ Len(decoded) = Len(outputs)
    /\ \A n \in DOMAIN outputs :
          /\ outputs[n] = OutputDue(decoded[n])
          /\ \/ outputs[n].Error = "" /\ outputs[n].MessageType # "" /\ ~outputs[n].ValueNil
             \/ outputs[n].Error # "" /\ outputs[n].MessageType = "" /\ outputs[n].ValueNil
    /\ \A m, n \in DOMAIN outputs :
          (m < n /\ outputs[m].Partition = outputs[n].Partition)
          => outputs[m].Offset < outputs[n].Offset

C29_FetchErrorSkipsPoll ==
    /\ [][(runPc = "running" /\ ~ctxDone /\ ~ctxDone' /\ fetches'.err)
          => /\ stderr' = Append(stderr, LogFetchError)
             /\ outputs' = outputs
             /\ stdout' = stdout
             /\ decoded' = decoded
             /\ messageCount' = messageCount
             /\ runPc' = "running"]_vars
    /\ [][(runPc = "running" /\ fetches'.err /\ stderr' # stderr)
          => /\ outputs' = outputs
             /\ stdout' = stdout
             /\ messageCount' = messageCount
             /\ runPc' = "running"]_vars

\* C29 witness: a poll that reported an error returned records; none was
\* output or counted, the error is on standard error, the loop goes on.
C29_Witness ==
    /\ fetches.err
    /\ NumRecords(fetches.parts) > 0
    /\ Passing(fetches.parts) # <<>>
    /\ outputs = <<>>
    /\ messageCount = 0
    /\ stderr[Len(stderr)] = LogFetchError
    /\ runPc = "running"

\* C29 witness: after a fetch error the loop polled again and output a record.
C29_WitnessPollsAgain ==
    /\ CountOf(stderr, LogFetchError) = 1
    /\ ~fetches.err
    /\ Len(outputs) > 0

====
